---------------------------- MODULE Spec2Model ----------------------------
(***************************************************************************)
(* keyoscacquire: the Oscilloscope session of keyoscacquire/oscilloscope.py *)
(* and the decoder of keyoscacquire/dataprocessing.py, as a state machine. *)
(*                                                                         *)
(* Text is a sequence of one-character strings, so that slicing            *)
(* (a_type[:4]), upper(), int() and the comparisons of the code are        *)
(* computed and not assumed.  A transport command is a record              *)
(* [c |-> header, s |-> text argument, n |-> numeric arguments]; for a     *)
(* query s holds the text that came back (n the block of a binary read).   *)
(***************************************************************************)
EXTENDS Integers, Sequences, FiniteSets, TLC

VARIABLES
    phase,              \* "disconnected" or "connected"
    dev,                \* the instrument behind the transport
    model_series,       \* Oscilloscope._model_series
    capture_channels,   \* Oscilloscope._capture_channels
    sources,            \* Oscilloscope._sources (CHAN<ch> as ch)
    raw,                \* Oscilloscope._raw
    metadata,           \* Oscilloscope._metadata
    time,               \* Oscilloscope._time   (<<>> while None)
    values,             \* Oscilloscope._values (<<>> while None)
    has_trace,          \* _time is not None
    verbose_acquistion, \* Oscilloscope.verbose_acquistion
    call,               \* the last call made on the session and its arguments
    log,                \* the transport commands of the last call, in order
    result,             \* how the last call ended: "ok" or the exception raised
    decodes,            \* the channel counts process_data was invoked with in the last call
    id,                 \* Oscilloscope._id
    errors,             \* Oscilloscope.errors (<<>> while unset)
    returned,           \* the text the last call returned (<<>> when it returns none)
    fname,              \* Oscilloscope.fname
    ext,                \* Oscilloscope.ext
    savepng,            \* Oscilloscope.savepng
    files,              \* the names of the files that exist
    saved               \* the files the last call wrote: [name, kind], in order

vars == <<phase, dev, model_series, capture_channels, sources, raw, metadata,
          time, values, has_trace, verbose_acquistion, call, log, result, decodes,
          id, errors, returned, fname, ext, savepng, files, saved>>

----------------------------------------------------------------------------
(* Bounds *)

\* samples per channel the instrument transfers
NumSamples == 2
\* a pending transport fault falls on one of the next MaxFaultDelay reads
MaxFaultDelay == 4
\* errors the instrument has queued when a fault is injected
MaxQueued == 2
\* acquisitions the instrument takes before the model stops digitizing
MaxAcq == 1
\* files that exist before the model stops creating files
MaxFiles == 5

----------------------------------------------------------------------------
(* Text *)

Lowers == <<"a","b","c","d","e","f","g","h","i","j","k","l","m",
            "n","o","p","q","r","s","t","u","v","w","x","y","z">>
Uppers == <<"A","B","C","D","E","F","G","H","I","J","K","L","M",
            "N","O","P","Q","R","S","T","U","V","W","X","Y","Z">>
Digits == <<"0","1","2","3","4","5","6","7","8","9">>

IndexIn(c, alphabet) ==
    IF \E i \in 1..Len(alphabet) : alphabet[i] = c
    THEN CHOOSE i \in 1..Len(alphabet) : alphabet[i] = c
    ELSE 0

\* str.upper() and str.lower()
Upper(t) == [i \in 1..Len(t) |->
                IF IndexIn(t[i], Lowers) > 0 THEN Uppers[IndexIn(t[i], Lowers)] ELSE t[i]]
Lower(t) == [i \in 1..Len(t) |->
                IF IndexIn(t[i], Uppers) > 0 THEN Lowers[IndexIn(t[i], Uppers)] ELSE t[i]]

\* t[:k] and t[k:]
Take(t, k) == SubSeq(t, 1, IF k < Len(t) THEN k ELSE Len(t))
Drop(t, k) == SubSeq(t, k + 1, Len(t))

IsDigits(t) == Len(t) > 0 /\ \A i \in 1..Len(t) : IndexIn(t[i], Digits) > 0

RECURSIVE DigitsValue(_)
DigitsValue(t) ==
    IF Len(t) = 0 THEN 0
    ELSE 10 * DigitsValue(SubSeq(t, 1, Len(t) - 1)) + (IndexIn(t[Len(t)], Digits) - 1)

\* int(text): [ok |-> FALSE] stands for the ValueError of int()
ParseDigits(t) ==
    IF IsDigits(t) THEN [ok |-> TRUE, val |-> DigitsValue(t)]
    ELSE IF Len(t) > 1 /\ t[1] = "-" /\ IsDigits(Drop(t, 1))
         THEN [ok |-> TRUE, val |-> 0 - DigitsValue(Drop(t, 1))]
    ELSE IF Len(t) > 1 /\ t[1] = "+" /\ IsDigits(Drop(t, 1))
         THEN [ok |-> TRUE, val |-> DigitsValue(Drop(t, 1))]
         ELSE [ok |-> FALSE, val |-> 0]

tNORM == <<"N","O","R","M">>
tNORMal == <<"N","O","R","M","a","l">>
tAVER == <<"A","V","E","R">>
tAVERage == <<"A","V","E","R","a","g","e">>
tHRES == <<"H","R","E","S">>
tHRESolution == <<"H","R","E","S","o","l","u","t","i","o","n">>
tRAW == <<"R","A","W">>
tMAXimum == <<"M","A","X","i","m","u","m">>
tWORD == <<"W","O","R","D">>
tBYTE == <<"B","Y","T","E">>
tASCii == <<"A","S","C","i","i">>
tData == <<"d","a","t","a">>
tCsv == <<".","c","s","v">>
tNpy == <<".","n","p","y">>
tPng == <<".","p","n","g">>
tage == <<"a","g","e">>


\* str(n) of a Python int
RECURSIVE NatText(_)
NatText(n) ==
    IF n < 10 THEN <<Digits[n + 1]>>
    ELSE NatText(n \div 10) \o <<Digits[(n % 10) + 1]>>
IntText(n) == IF n < 0 THEN <<"-">> \o NatText(0 - n) ELSE NatText(n)

IsSpace(c) == c \in {" ", "\n", "\r", "\t"}

\* str.strip()
RECURSIVE LStrip(_)
LStrip(t) == IF Len(t) > 0 /\ IsSpace(t[1]) THEN LStrip(Tail(t)) ELSE t
RECURSIVE RStrip(_)
RStrip(t) == IF Len(t) > 0 /\ IsSpace(t[Len(t)]) THEN RStrip(SubSeq(t, 1, Len(t) - 1)) ELSE t
Strip(t) == LStrip(RStrip(t))

\* ",".join(parts)
RECURSIVE Join(_, _)
Join(parts, sep) ==
    IF Len(parts) = 0 THEN <<>>
    ELSE IF Len(parts) = 1 THEN parts[1]
    ELSE parts[1] \o sep \o Join(Tail(parts), sep)

\* t.split(sep) for a non-empty separator
RECURSIVE SplitFrom(_, _, _)
SplitFrom(t, sep, cur) ==
    IF Len(t) = 0 THEN <<cur>>
    ELSE IF Len(t) >= Len(sep) /\ SubSeq(t, 1, Len(sep)) = sep
         THEN <<cur>> \o SplitFrom(Drop(t, Len(sep)), sep, <<>>)
         ELSE SplitFrom(Tail(t), sep, Append(cur, t[1]))
Split(t, sep) == SplitFrom(t, sep, <<>>)

\* int(text), which ignores surrounding whitespace
ParseInt(t) == ParseDigits(Strip(t))

\* float(text) for decimal text without an exponent.  The numbers of the
\* model are whole: val is the number truncated toward zero, which is what
\* int(float(text)) makes of it.  dot is the place of the point in u, 0 when
\* it has none.
ParseDecimal(u, dot) ==
    IF dot = 0 THEN ParseDigits(u)
    ELSE IF \E i \in (dot + 1)..Len(u) : IndexIn(u[i], Digits) = 0
    THEN [ok |-> FALSE, val |-> 0]
    ELSE IF Take(u, dot - 1) \in {<<>>, <<"-">>, <<"+">>}
    THEN [ok |-> Len(u) > dot, val |-> 0]
    ELSE ParseDigits(Take(u, dot - 1))

ParseStripped(u) == ParseDecimal(u, IndexIn(".", u))

ParseFloat(t) == ParseStripped(Strip(t))

\* t.strip(",")
RECURSIVE StripCommas(_)
StripCommas(t) ==
    IF Len(t) > 0 /\ t[1] = "," THEN StripCommas(Tail(t))
    ELSE IF Len(t) > 0 /\ t[Len(t)] = "," THEN StripCommas(SubSeq(t, 1, Len(t) - 1))
    ELSE t

----------------------------------------------------------------------------
(* The instrument behind the transport.  It keeps what the session wrote   *)
(* and answers a setting query with the value last written, terminated by  *)
(* a newline; DIGitize takes a new acquisition and stops, RUN and STOP set *)
(* the run state, WAVeform:SOURce selects whose preamble and data are read.*)

Cmd(c, s, n) == [c |-> c, s |-> s, n |-> n, ok |-> TRUE]

\* a command on which the transport raised pyvisa.Error
Failed(cmd) == [cmd EXCEPT !.ok = FALSE]

Channels == 1..4

DevWrite(d, cmd) ==
    CASE cmd.c = "*CLS" -> [d EXCEPT !.errors = 0]
      [] cmd.c = ":ACQuire:TYPE" -> [d EXCEPT !.acq_type = cmd.s]
      [] cmd.c = ":ACQuire:COUNt" -> [d EXCEPT !.count = cmd.n[1]]
      [] cmd.c = ":WAVeform:FORMat" -> [d EXCEPT !.format = cmd.s]
      [] cmd.c = ":WAVeform:POINts:MODE" -> [d EXCEPT !.p_mode = cmd.s]
      [] cmd.c = ":WAVeform:POINts" ->
            [d EXCEPT !.points = IF cmd.n = <<>> THEN 0 ELSE cmd.n[1]]
      [] cmd.c = ":ACQuire:POINts" -> [d EXCEPT !.acq_points = cmd.n[1]]
      [] cmd.c = ":WAVeform:SOURce" -> [d EXCEPT !.wsrc = cmd.n[1]]
      [] cmd.c = ":CHAN:DISP" -> [d EXCEPT !.disp[cmd.n[1]] = cmd.n[2]]
      [] cmd.c = ":DIGitize" -> [d EXCEPT !.running = FALSE, !.acq = @ + 1]
      [] cmd.c = ":RUN" -> [d EXCEPT !.running = TRUE]
      [] cmd.c = ":STOP" -> [d EXCEPT !.running = FALSE]
      [] cmd.c = ":WAVeform:UNSigned" -> [d EXCEPT !.unsigned = cmd.s]
      [] cmd.c = ":WAVeform:BYTeorder" -> [d EXCEPT !.byteorder = cmd.s]
      [] OTHER -> d

\* The transport raises pyvisa.Error on every command while the link is down,
\* and on the read the pending fault falls on (the fault_at-th read from now;
\* 0 when none is pending); after that read the link is as fault_then says.
TransportDown(d) == d.link = "down"
ReadFails(d) == d.link = "down" \/ d.fault_at = 1
AfterRead(d) ==
    [d EXCEPT !.fault_at = IF @ > 0 THEN @ - 1 ELSE 0,
              !.link = IF d.fault_at = 1 THEN d.fault_then ELSE @]

\* the reply to ':SYSTem:ERRor?': the oldest queued error, which leaves the
\* queue, or '+0,"No error"'; queued errors alternate between two messages
DevErrorReply(d) ==
    IF d.errors = 0
    THEN <<"+","0",",","\"","N","o"," ","e","r","r","o","r","\"","\n">>
    ELSE IF d.errors % 2 = 1
    THEN <<"-","2","2","2",",","\"","D","a","t","a"," ","o","u","t"," ","o","f"," ",
           "r","a","n","g","e","\"","\n">>
    ELSE <<"-","1","1","3",",","\"","U","n","d","e","f","i","n","e","d"," ",
           "h","e","a","d","e","r","\"","\n">>
AfterErrorRead(d) == [d EXCEPT !.errors = IF @ > 0 THEN @ - 1 ELSE 0]

\* the reply to ':OPERegister:CONDition?': bit 3 is the run bit, the other
\* bits of the register are whatever the instrument holds (d.reg_other)
DevRegister(d) == (IF d.running THEN 8 ELSE 0) + d.reg_other

\* raw sample n of channel ch in acquisition a
DevSample(ch, a, n) == 10 * ch + 3 * a + n

\* the ten preamble fields of channel ch: format, type, points, count,
\* xincrement, xorigin, xreference, yincrement, yorigin, yreference
DevPreambleFields(d, ch) ==
    << 1, 0, NumSamples, d.count, 2, 5, 0, ch + 1, ch, 1 >>

\* the voltage the instrument holds for raw value v of channel ch
DevVolts(d, ch, v) ==
    (v - DevPreambleFields(d, ch)[10]) * DevPreambleFields(d, ch)[8]
        + DevPreambleFields(d, ch)[9]

DevPreamble(d) ==
    Join([i \in 1..10 |-> IntText(DevPreambleFields(d, d.wsrc)[i])], <<",">>) \o <<"\n">>

\* the block ':WAVeform:DATA?' returns for the selected source in WORD or BYTE
DevBinaryBlock(d) == [n \in 1..NumSamples |-> DevSample(d.wsrc, d.acq, n - 1)]

\* ... and in ASCii: the voltages as text; a 2000 series instrument puts a
\* ten character block header in front, a 9000 series one ends the list
\* with a comma
DevVoltsText(d) ==
    Join([n \in 1..NumSamples |->
            IntText(DevVolts(d, d.wsrc, DevSample(d.wsrc, d.acq, n - 1)))], <<",">>)

DevAsciiBlock(d) ==
    IF d.series = <<"2","0","0","0">>
    THEN <<"#","8","0","0","0","0","0","0","1","3">> \o DevVoltsText(d) \o <<"\n">>
    ELSE IF d.series = <<"9","0","0","0">>
    THEN DevVoltsText(d) \o <<",", "\n">>
    ELSE DevVoltsText(d) \o <<"\n">>

----------------------------------------------------------------------------
(* One call on the session.  A call threads a record st through the        *)
(* statements of the handler: the instrument, the commands issued so far,  *)
(* the session attributes, and err, the exception that is propagating      *)
(* ("ok" while none is).  A statement reached while an exception           *)
(* propagates does nothing.                                                *)

\* an optional argument: None, or a value
None == [some |-> FALSE, v |-> <<>>]
NoneInt == [some |-> FALSE, v |-> 0]
NoneBool == [some |-> FALSE, v |-> FALSE]
Some(x) == [some |-> TRUE, v |-> x]

Start ==
    [dev |-> dev, log |-> <<>>, err |-> "ok", model_series |-> model_series,
     capture_channels |-> capture_channels, sources |-> sources,
     raw |-> raw, metadata |-> metadata, time |-> time, values |-> values,
     has_trace |-> has_trace, verbose_acquistion |-> verbose_acquistion,
     decodes |-> <<>>, id |-> id, errors |-> errors, released |-> FALSE, returned |-> <<>>,
     fname |-> fname, ext |-> ext, savepng |-> savepng, files |-> files, saved |-> <<>>]

Raise(st, exc) == IF st.err # "ok" THEN st ELSE [st EXCEPT !.err = exc]

\* Oscilloscope.write
write(st, cmd) ==
    IF st.err # "ok" THEN st
    ELSE IF TransportDown(st.dev)
    THEN [st EXCEPT !.log = Append(@, Failed(cmd)), !.err = "VisaError"]
    ELSE [st EXCEPT !.log = Append(@, cmd), !.dev = DevWrite(@, cmd)]

\* the reply of a query, stripped
Reply(text) == Strip(text)

\* Oscilloscope.get_error: a read on the transport itself, not through query;
\* its pyvisa.Error is told apart from the one of the command that failed
get_error(st) ==
    IF st.err # "ok" THEN st
    ELSE IF ReadFails(st.dev)
    THEN [st EXCEPT !.log = Append(@, Failed(Cmd(":SYSTem:ERRor?", <<>>, <<>>))),
                    !.dev = AfterRead(@), !.err = "VisaError in get_error"]
    ELSE [st EXCEPT !.log = Append(@, Cmd(":SYSTem:ERRor?", Reply(DevErrorReply(st.dev)), <<>>)),
                    !.dev = AfterErrorRead(AfterRead(@))]

\* the loop with one round more
RECURSIVE error_queue_from_one_more(_, _)
error_queue_from_one_more(st, i) ==
    IF i >= 31 \/ st.err # "ok" THEN st
    ELSE LET s1 == get_error(st)
             err == Reply(DevErrorReply(st.dev))
         IN  IF s1.err # "ok" \/ Take(err, 2) = <<"+","0">> THEN s1
             ELSE error_queue_from_one_more([s1 EXCEPT !.errors = Append(@, err)], i + 1)

\* Oscilloscope.get_full_error_queue: the loop from round i on; s1 is the
\* session after get_error and err the reply it returned
RECURSIVE error_queue_from(_, _)
error_queue_round(s1, err, i) ==
    IF s1.err # "ok" \/ Take(err, 2) = <<"+","0">> THEN s1
    ELSE error_queue_from([s1 EXCEPT !.errors = Append(@, err)], i + 1)

error_queue_from(st, i) ==
    IF i >= 30 \/ st.err # "ok" THEN st
    ELSE error_queue_round(get_error(st), Reply(DevErrorReply(st.dev)), i)

get_full_error_queue(st) ==
    IF st.err # "ok" THEN st ELSE error_queue_from([st EXCEPT !.errors = <<>>], 0)

\* the except clause without the inner try: an exception of the error queue
\* read replaces the transport error
reraise_unless_errors_fail(st) ==
    [get_full_error_queue(st) EXCEPT !.err = IF @ = "ok" THEN "VisaError" ELSE @]

\* the except clause of query and of _read_binary: the error queue is read,
\* an exception of that read is caught, and the transport error is raised again
reraise_after_errors(st) == [get_full_error_queue(st) EXCEPT !.err = "VisaError"]

\* Oscilloscope.query
query(st, c, n, reply) ==
    IF st.err # "ok" THEN st
    ELSE IF ReadFails(st.dev)
    THEN reraise_after_errors([st EXCEPT !.log = Append(@, Failed(Cmd(c, <<>>, n))),
                                         !.dev = AfterRead(@)])
    ELSE [st EXCEPT !.log = Append(@, Cmd(c, Reply(reply), n)), !.dev = AfterRead(@)]

\* self._inst.query_binary_values(':WAVeform:DATA?', datatype=...) inside
\* the try of _read_binary
query_binary_values(st, datatype, block) ==
    IF st.err # "ok" THEN st
    ELSE IF ReadFails(st.dev)
    THEN reraise_after_errors([st EXCEPT !.log = Append(@, Failed(Cmd(":WAVeform:DATA?", datatype, <<>>))),
                                         !.dev = AfterRead(@)])
    ELSE [st EXCEPT !.log = Append(@, Cmd(":WAVeform:DATA?", datatype, block)),
                    !.dev = AfterRead(@), !.raw = Append(@, block)]

\* Oscilloscope.run and Oscilloscope.stop
run(st) == write(st, Cmd(":RUN", <<>>, <<>>))
stop(st) == write(st, Cmd(":STOP", <<>>, <<>>))

\* self._inst.close()
release(st) == IF st.err # "ok" THEN st ELSE [st EXCEPT !.released = TRUE]

\* Oscilloscope.close
close(st, set_running) == release(IF set_running THEN run(st) ELSE st)

\* __exit__ that closes the same way whether or not the with-block raised
exit_set_running(st, exc) == close(st, TRUE)

\* Oscilloscope.__exit__: exc says whether the with-block raised
exit(st, exc) == IF exc THEN close(st, FALSE) ELSE close(st, TRUE)

\* Oscilloscope.num_averages (setter)
num_averages_set(st, num) ==
    IF ~(2 <= num /\ num <= 65536)
    THEN Raise(st, "ValueError")
    ELSE write(st, Cmd(":ACQuire:COUNt", <<>>, <<num>>))

\* Oscilloscope.acq_type (setter).  The except clause catches the ValueError
\* of int() and the ValueError of the num_averages setter alike, and builds
\* a ValueError that it does not raise.
acq_type_set(st, a_type) ==
    LET acq_type == Upper(Take(a_type, 4))
        s1 == write(st, Cmd(":ACQuire:TYPE", acq_type, <<>>))
    IN  IF acq_type = tAVER /\ Len(a_type) > 4 /\ ~(Lower(Drop(a_type, 4)) = tage)
        THEN LET m == ParseInt(Drop(a_type, 4))
                 s2 == IF m.ok THEN num_averages_set(s1, m.val) ELSE Raise(s1, "ValueError")
             IN  IF s1.err = "ok" /\ s2.err = "ValueError" THEN s1 ELSE s2
        ELSE s1

\* Oscilloscope.acq_type (getter)
AcqTypeReply(st) == Reply(st.dev.acq_type \o <<"\n">>)

\* p_mode (setter) without the override: the mode is written as asked
p_mode_set_as_asked(st, p_mode) ==
    write(IF ~(Take(p_mode, 4) = tNORM)
          THEN query(st, ":ACQuire:TYPE?", <<>>, st.dev.acq_type \o <<"\n">>)
          ELSE st,
          Cmd(":WAVeform:POINts:MODE", p_mode, <<>>))

\* Oscilloscope.p_mode (setter): the acquisition type is queried only when
\* the requested mode does not start with NORM
p_mode_set(st, p_mode) ==
    IF ~(Take(p_mode, 4) = tNORM)
    THEN LET s1 == query(st, ":ACQuire:TYPE?", <<>>, st.dev.acq_type \o <<"\n">>)
             mode == IF AcqTypeReply(st) = tAVER THEN tNORM ELSE p_mode
         IN  write(s1, Cmd(":WAVeform:POINts:MODE", mode, <<>>))
    ELSE write(st, Cmd(":WAVeform:POINts:MODE", p_mode, <<>>))

\* a setter that stops and restarts the instrument for the maximum as well
num_points_set_stopping_for_max(st, num_points) ==
    IF num_points < 0 THEN st
    ELSE IF st.model_series = <<"9","0","0","0">> /\ num_points > 0
    THEN write(st, Cmd(":ACQuire:POINts", <<>>, <<num_points>>))
    ELSE LET s1 == IF num_points > 7680 THEN p_mode_set(st, tRAW) ELSE st
         IN  run(write(stop(s1),
                       IF num_points = 0 THEN Cmd(":WAVeform:POINts", tMAXimum, <<>>)
                       ELSE Cmd(":WAVeform:POINts", <<>>, <<num_points>>)))

\* the point count written as ':WAVeform:POINts' whatever the model series
num_points_set_one_namespace(st, num_points) ==
    IF num_points = 0
    THEN write(st, Cmd(":WAVeform:POINts", tMAXimum, <<>>))
    ELSE IF num_points > 0
    THEN run(write(stop(IF num_points > 7680 THEN p_mode_set(st, tRAW) ELSE st),
                   Cmd(":WAVeform:POINts", <<>>, <<num_points>>)))
    ELSE st

\* Oscilloscope.num_points (setter): the ValueError of the last branch is
\* built and not raised
num_points_set(st, num_points) ==
    IF num_points = 0
    THEN write(st, Cmd(":WAVeform:POINts", tMAXimum, <<>>))
    ELSE IF num_points > 0
    THEN IF st.model_series = <<"9","0","0","0">>
         THEN write(st, Cmd(":ACQuire:POINts", <<>>, <<num_points>>))
         ELSE LET s1 == IF num_points > 7680 THEN p_mode_set(st, tRAW) ELSE st
              IN  run(write(stop(s1), Cmd(":WAVeform:POINts", <<>>, <<num_points>>)))
    ELSE st

\* the format written between a ':STOP' and a ':RUN', as the point count is
wav_format_set_restarting(st, wav_format) ==
    run(write(stop(st), Cmd(":WAVeform:FORMat", wav_format, <<>>)))

\* Oscilloscope.wav_format (setter)
wav_format_set(st, wav_format) == write(st, Cmd(":WAVeform:FORMat", wav_format, <<>>))

\* Oscilloscope.set_waveform_export_options
set_waveform_export_options(st, wav_format, num_points, p_mode) ==
    LET s1 == IF wav_format.some THEN wav_format_set(st, wav_format.v) ELSE st
        s2 == IF p_mode.some THEN p_mode_set(s1, p_mode.v) ELSE s1
    IN  IF num_points.some THEN num_points_set(s2, num_points.v) ELSE s2

\* the export options applied before the acquisition type and count
set_acquiring_options_export_first(st, wav_format, acq_type, num_averages, p_mode, num_points, verbose) ==
    LET s0 == IF verbose.some /\ st.err = "ok"
              THEN [st EXCEPT !.verbose_acquistion = verbose.v] ELSE st
        s1 == set_waveform_export_options(s0, wav_format, num_points, p_mode)
        s2 == IF acq_type.some THEN acq_type_set(s1, acq_type.v) ELSE s1
    IN  IF num_averages.some THEN num_averages_set(s2, num_averages.v) ELSE s2

\* Oscilloscope.set_acquiring_options
set_acquiring_options(st, wav_format, acq_type, num_averages, p_mode, num_points, verbose) ==
    LET s0 == IF verbose.some /\ st.err = "ok"
              THEN [st EXCEPT !.verbose_acquistion = verbose.v] ELSE st
        s1 == IF acq_type.some THEN acq_type_set(s0, acq_type.v) ELSE s0
        s2 == IF num_averages.some THEN num_averages_set(s1, num_averages.v) ELSE s1
    IN  set_waveform_export_options(s2, wav_format, num_points, p_mode)

----------------------------------------------------------------------------
(* keyoscacquire/dataprocessing.py.  A decoder returns                     *)
(* [err, time, values]: time is the column of N time values, values has    *)
(* one row per sample and one column per channel.                          *)

DecodeError(exc) == [err |-> exc, time |-> <<>>, values |-> <<>>]

\* the exception of preamble[i] and float(preamble[i]) for the 0-based
\* indices idx, "ok" when every one of them converts
RECURSIVE FieldsError(_, _)
FieldsError(fields, idx) ==
    IF Len(idx) = 0 THEN "ok"
    ELSE IF Len(fields) < idx[1] + 1 THEN "IndexError"
    ELSE IF ~ParseFloat(fields[idx[1] + 1]).ok THEN "ValueError"
    ELSE FieldsError(fields, Tail(idx))

Field(fields, i) == ParseFloat(fields[i + 1]).val

\* a time axis that starts at zero whatever the origin and the reference
TimeAxis_from_zero(num_samples, xIncr, xOrig, xRef) ==
    [k \in 1..num_samples |-> <<(k - 1) * xIncr>>]

\* (np.arange(num_samples) - xRef) * xIncr + xOrig, made vertical
TimeAxis(num_samples, xIncr, xOrig, xRef) ==
    [k \in 1..num_samples |-> <<((k - 1) - xRef) * xIncr + xOrig>>]

\* y.T of a list of equally long rows
Transpose(y, n) == [k \in 1..n |-> [c \in 1..Len(y) |-> y[c][k]]]

\* a scaling that takes the origin for the reference
ScaledRow_origin_for_reference(data, num_samples, yIncr, yOrig, yRef) ==
    [k \in 1..num_samples |->
        ((IF Len(data) = 1 THEN data[1] ELSE data[k]) - yOrig) * yIncr + yRef]

\* y[i,:] = (data - yRef) * yIncr + yOrig: a row of num_samples values; an
\* array of one value is broadcast over the row
ScaledRow(data, num_samples, yIncr, yOrig, yRef) ==
    [k \in 1..num_samples |->
        ((IF Len(data) = 1 THEN data[1] ELSE data[k]) - yRef) * yIncr + yOrig]

RECURSIVE BinaryRows(_, _, _, _)
BinaryRows(raw_, preambles, num_samples, i) ==
    IF i > Len(raw_) THEN [err |-> "ok", y |-> <<>>]
    ELSE LET preamble == Split(preambles[i], <<",">>)
             e == FieldsError(preamble, <<7, 8, 9>>)
         IN  IF e # "ok" THEN [err |-> e, y |-> <<>>]
             ELSE IF Len(raw_[i]) # num_samples /\ Len(raw_[i]) # 1
             THEN [err |-> "ValueError", y |-> <<>>]
             ELSE LET rest == BinaryRows(raw_, preambles, num_samples, i + 1)
                  IN  IF rest.err # "ok" THEN rest
                      ELSE [err |-> "ok",
                            y |-> <<ScaledRow(raw_[i], num_samples, Field(preamble, 7),
                                              Field(preamble, 8), Field(preamble, 9))>>
                                  \o rest.y]

\* _process_data_binary
process_data_binary(raw_, preambles) ==
    IF Len(preambles) = 0 THEN DecodeError("IndexError")
    ELSE LET preamble == Split(preambles[1], <<",">>)
             e == FieldsError(preamble, <<2, 4, 5, 6>>)
         IN  IF e # "ok" THEN DecodeError(e)
             ELSE LET num_samples == Field(preamble, 2)
                  IN  IF num_samples < 0 THEN DecodeError("ValueError")
                      ELSE LET rows == BinaryRows(raw_, preambles, num_samples, 1)
                           IN  IF rows.err # "ok" THEN DecodeError(rows.err)
                               ELSE [err |-> "ok",
                                     time |-> TimeAxis(num_samples, Field(preamble, 4),
                                                       Field(preamble, 5), Field(preamble, 6)),
                                     values |-> Transpose(rows.y, num_samples)]

\* every block parsed as it is, whatever the model series
AsciiSamples_unchanged(data, series) ==
    IF \E k \in 1..Len(Split(data, <<",">>)) : ~ParseFloat(Split(data, <<",">>)[k]).ok
    THEN [err |-> "ValueError", y |-> <<>>]
    ELSE [err |-> "ok", y |-> [k \in 1..Len(Split(data, <<",">>)) |->
                                 ParseFloat(Split(data, <<",">>)[k]).val]]

\* the samples of one ASCii block: the block header rule of the model
\* series, then one float per comma separated sample
AsciiSamples(data, series) ==
    LET body == IF series = <<"2","0","0","0">>
                THEN IF Len(data) = 0 THEN [ok |-> FALSE, t |-> <<>>]
                     ELSE [ok |-> TRUE, t |-> Split(data, Take(data, 10))[2]]
                ELSE IF series = <<"9","0","0","0">>
                THEN [ok |-> TRUE, t |-> StripCommas(Strip(data))]
                ELSE [ok |-> TRUE, t |-> data]
        parts == Split(body.t, <<",">>)
    IN  IF ~body.ok \/ \E k \in 1..Len(parts) : ~ParseFloat(parts[k]).ok
        THEN [err |-> "ValueError", y |-> <<>>]
        ELSE [err |-> "ok", y |-> [k \in 1..Len(parts) |-> ParseFloat(parts[k]).val]]

\* _process_data_ascii: np.array(y) of rows of different lengths is a
\* ValueError
process_data_ascii(raw_, metadata_) ==
    IF Len(metadata_) # 2 THEN DecodeError("ValueError")
    ELSE LET preamble == Split(metadata_[1], <<",">>)
             series == metadata_[2]
             e == FieldsError(preamble, <<2, 4, 5, 6>>)
             rows == [i \in 1..Len(raw_) |-> AsciiSamples(raw_[i], series)]
         IN  IF e # "ok" THEN DecodeError(e)
             ELSE IF \E i \in 1..Len(raw_) : rows[i].err # "ok" THEN DecodeError("ValueError")
             ELSE IF \E i, j \in 1..Len(raw_) : Len(rows[i].y) # Len(rows[j].y)
             THEN DecodeError("ValueError")
             ELSE [err |-> "ok",
                   time |-> TimeAxis(Field(preamble, 2), Field(preamble, 4),
                                     Field(preamble, 5), Field(preamble, 6)),
                   values |-> IF Len(raw_) = 0 THEN <<>>
                              ELSE Transpose([i \in 1..Len(raw_) |-> rows[i].y],
                                             Len(rows[1].y))]

\* process_data
process_data(raw_, metadata_, wav_format) ==
    IF Take(wav_format, 3) \in {<<"W","O","R">>, <<"B","Y","T">>}
    THEN process_data_binary(raw_, metadata_)
    ELSE IF Take(wav_format, 3) = <<"A","S","C">>
    THEN process_data_ascii(raw_, metadata_)
    ELSE DecodeError("ValueError")

----------------------------------------------------------------------------
(* Channel selection and capture *)

\* a channels argument: None, 'active', or a list of channel numbers
ChanNone == [kind |-> "None", v |-> <<>>]
ChanActive == [kind |-> "active", v |-> <<>>]
ChanList(l) == [kind |-> "list", v |-> l]

\* Oscilloscope.active_channels (setter): ':CHAN<i>:DISP' is written for
\* CHAN1..CHAN4 in turn, 1 for the channels of the list
RECURSIVE active_channels_set(_, _, _)
active_channels_set(st, channels, i) ==
    IF i > 4 THEN st
    ELSE active_channels_set(
            write(st, Cmd(":CHAN:DISP", <<>>,
                          <<i, IF \E k \in 1..Len(channels) : channels[k] = i THEN 1 ELSE 0>>)),
            channels, i + 1)

\* active_channels (getter) with range(1, 4): CHAN4 is never asked
RECURSIVE active_channels_three(_, _, _)
active_channels_three(st, i, acc) ==
    IF i >= 4 \/ st.err # "ok" THEN <<st, acc>>
    ELSE LET reply == IntText(st.dev.disp[i]) \o <<"\n">>
             s1 == query(st, ":CHAN:DISP?", <<i>>, reply)
             on == ParseInt(Reply(reply))
         IN  IF ~on.ok THEN <<Raise(s1, "ValueError"), acc>>
             ELSE active_channels_three(s1, i + 1, IF on.val # 0 THEN Append(acc, i) ELSE acc)

\* Oscilloscope.active_channels (getter): CHAN1..CHAN4 are queried in turn;
\* the pair of the state after the queries and the channels that replied on
RECURSIVE active_channels(_, _, _)
active_channels(st, i, acc) ==
    IF i >= 5 \/ st.err # "ok" THEN <<st, acc>>
    ELSE LET reply == IntText(st.dev.disp[i]) \o <<"\n">>
             s1 == query(st, ":CHAN:DISP?", <<i>>, reply)
             on == ParseInt(Reply(reply))
         IN  IF ~on.ok THEN <<Raise(s1, "ValueError"), acc>>
             ELSE active_channels(s1, i + 1, IF on.val # 0 THEN Append(acc, i) ELSE acc)

\* set_channels_for_capture that sorts an explicit list
set_channels_for_capture_sorted(st, channels) ==
    IF st.err # "ok" THEN st
    ELSE IF channels.kind = "None" \/ channels.kind = "active" \/ channels.v = <<>>
    THEN LET found == active_channels(st, 1, <<>>)
         IN  IF found[1].err # "ok" THEN found[1]
             ELSE [found[1] EXCEPT !.capture_channels = found[2], !.sources = found[2]]
    ELSE LET sorted == SelectSeq(<<1, 2, 3, 4>>,
                                 LAMBDA c : \E i \in 1..Len(channels.v) : channels.v[i] = c)
         IN  [st EXCEPT !.capture_channels = sorted, !.sources = sorted]

\* Oscilloscope.set_channels_for_capture
set_channels_for_capture(st, channels) ==
    IF st.err # "ok" THEN st
    ELSE IF channels.kind = "None" \/ channels.kind = "active" \/ channels.v = <<>>
    THEN LET found == active_channels(st, 1, <<>>)
         IN  IF found[1].err # "ok" THEN found[1]
             ELSE [found[1] EXCEPT !.capture_channels = found[2], !.sources = found[2]]
    ELSE [st EXCEPT !.capture_channels = channels.v, !.sources = channels.v]

\* Oscilloscope.print_acq_settings
print_acq_settings(st) ==
    LET s1 == query(st, ":ACQuire:TYPE?", <<>>, st.dev.acq_type \o <<"\n">>)
    IN  IF AcqTypeReply(st) = tAVER
        THEN query(s1, ":ACQuire:COUNt?", <<>>, IntText(st.dev.count) \o <<"\n">>)
        ELSE s1

\* _read_binary that asks for the preamble before it selects the source
RECURSIVE read_binary_preamble_first(_, _, _)
read_binary_preamble_first(st, datatype, i) ==
    IF i > Len(st.sources) \/ st.err # "ok" THEN st
    ELSE LET s1 == query(st, ":WAVeform:PREamble?", <<>>, DevPreamble(st.dev))
             s2 == IF s1.err # "ok" THEN s1
                   ELSE [s1 EXCEPT !.metadata = Append(@, Reply(DevPreamble(st.dev)))]
             s3 == write(s2, Cmd(":WAVeform:SOURce", <<>>, <<st.sources[i]>>))
             s4 == query_binary_values(s3, datatype, DevBinaryBlock(s3.dev))
         IN  read_binary_preamble_first(s4, datatype, i + 1)

\* Oscilloscope._read_binary from source i on
RECURSIVE read_binary(_, _, _)
read_binary(st, datatype, i) ==
    IF i > Len(st.sources) \/ st.err # "ok" THEN st
    ELSE LET s1 == write(st, Cmd(":WAVeform:SOURce", <<>>, <<st.sources[i]>>))
             s2 == query(s1, ":WAVeform:PREamble?", <<>>, DevPreamble(s1.dev))
             s3 == IF s2.err # "ok" THEN s2
                   ELSE [s2 EXCEPT !.metadata = Append(@, Reply(DevPreamble(s1.dev)))]
             s4 == query_binary_values(s3, datatype, DevBinaryBlock(s1.dev))
         IN  read_binary(s4, datatype, i + 1)

\* Oscilloscope._read_ascii from source i on
RECURSIVE read_ascii_sources(_, _)
read_ascii_sources(st, i) ==
    IF i > Len(st.sources) \/ st.err # "ok" THEN st
    ELSE LET s1 == write(st, Cmd(":WAVeform:SOURce", <<>>, <<st.sources[i]>>))
             s2 == query(s1, ":WAVeform:DATA?", <<>>, DevAsciiBlock(s1.dev))
             s3 == IF s2.err # "ok" THEN s2
                   ELSE [s2 EXCEPT !.raw = Append(@, Reply(DevAsciiBlock(s1.dev)))]
         IN  read_ascii_sources(s3, i + 1)

\* _read_ascii that asks for the preamble before it reads the sources
read_ascii_preamble_first(st) ==
    LET s1 == query([st EXCEPT !.raw = <<>>], ":WAVeform:PREamble?", <<>>, DevPreamble(st.dev))
        s2 == read_ascii_sources(s1, 1)
    IN  IF s2.err # "ok" THEN s2
        ELSE [s2 EXCEPT !.metadata = <<Reply(DevPreamble(st.dev)), st.model_series>>]

read_ascii(st) ==
    LET s1 == read_ascii_sources([st EXCEPT !.raw = <<>>], 1)
        s2 == query(s1, ":WAVeform:PREamble?", <<>>, DevPreamble(s1.dev))
    IN  IF s2.err # "ok" THEN s2
        ELSE [s2 EXCEPT !.metadata = <<Reply(DevPreamble(s1.dev)), st.model_series>>]

\* _DATATYPES with the unsigned struct characters
DATATYPES_unsigned(wav_format) == IF wav_format = <<"W","O","R">> THEN <<"H">> ELSE <<"B">>

\* _DATATYPES
DATATYPES(wav_format) == IF wav_format = <<"W","O","R">> THEN <<"h">> ELSE <<"b">>

\* is_running that compares the whole register with 8
RunBit_whole_register(reg) == reg = 8

\* Oscilloscope.is_running: bit 3 of the reply to ':OPERegister:CONDition?'
RunBit(reg) == (reg \div 8) % 2 = 1

\* Oscilloscope.capture_and_read
capture_and_read(st, set_running) ==
    IF st.err # "ok" THEN st
    ELSE
    LET wav_format == Reply(st.dev.format \o <<"\n">>)
        s1 == query(st, ":WAVeform:FORMat?", <<>>, st.dev.format \o <<"\n">>)
        s2 == IF st.verbose_acquistion THEN print_acq_settings(s1) ELSE s1
        reg == ParseInt(Reply(IntText(DevRegister(s2.dev)) \o <<"\n">>))
        s3 == query(s2, ":OPERegister:CONDition?", <<>>, IntText(DevRegister(s2.dev)) \o <<"\n">>)
        s4 == IF ~reg.ok THEN Raise(s3, "ValueError")
              ELSE IF RunBit(reg.val)
              THEN write(s3, Cmd(":DIGitize", <<>>, s3.sources))
              ELSE s3
        fmt == Take(wav_format, 3)
        s5 == IF s4.err # "ok" THEN s4
              ELSE IF fmt \in {<<"W","O","R">>, <<"B","Y","T">>}
              THEN read_binary([s4 EXCEPT !.raw = <<>>, !.metadata = <<>>], DATATYPES(fmt), 1)
              ELSE IF fmt = <<"A","S","C">>
              THEN read_ascii(s4)
              ELSE Raise(s4, "ValueError")
    IN  IF set_running THEN run(s5) ELSE s5

\* Oscilloscope.wav_format (getter)
wav_format_get(st) == query(st, ":WAVeform:FORMat?", <<>>, st.dev.format \o <<"\n">>)

\* a get_trace that empties the stored trace when process_data raises
decode_trace_clearing(st) ==
    IF st.err # "ok" THEN st
    ELSE LET out == process_data(st.raw, st.metadata, Reply(st.dev.format \o <<"\n">>))
         IN  IF out.err # "ok"
             THEN [st EXCEPT !.err = out.err, !.decodes = Append(@, Len(st.raw)),
                             !.time = <<>>, !.values = <<>>]
             ELSE [st EXCEPT !.decodes = Append(@, Len(st.raw)),
                             !.time = out.time, !.values = out.values, !.has_trace = TRUE]

\* Oscilloscope.get_trace, the call of process_data on what the capture read
\* and the format the instrument reports
decode_trace(st) ==
    IF st.err # "ok" THEN st
    ELSE LET out == process_data(st.raw, st.metadata, Reply(st.dev.format \o <<"\n">>))
         IN  IF out.err # "ok"
             THEN [st EXCEPT !.err = out.err, !.decodes = Append(@, Len(st.raw))]
             ELSE [st EXCEPT !.decodes = Append(@, Len(st.raw)),
                             !.time = out.time, !.values = out.values, !.has_trace = TRUE]

\* Oscilloscope.get_trace
\* a get_trace that leaves the instrument as the capture left it
get_trace_not_set_running(st, channels, verbose) ==
    LET s0 == IF verbose.some /\ st.err = "ok"
              THEN [st EXCEPT !.verbose_acquistion = verbose.v] ELSE st
        s1 == IF channels.kind # "None" THEN set_channels_for_capture(s0, channels) ELSE s0
    IN  decode_trace(wav_format_get(capture_and_read(s1, FALSE)))

get_trace(st, channels, verbose) ==
    LET s0 == IF verbose.some /\ st.err = "ok"
              THEN [st EXCEPT !.verbose_acquistion = verbose.v] ELSE st
        s1 == IF channels.kind # "None" THEN set_channels_for_capture(s0, channels) ELSE s0
    IN  decode_trace(wav_format_get(capture_and_read(s1, TRUE)))

\* Oscilloscope.set_options_get_trace
set_options_get_trace(st, channels, wav_format, acq_type, num_averages, p_mode, num_points) ==
    get_trace(set_acquiring_options(set_channels_for_capture(st, channels),
                                    wav_format, acq_type, num_averages, p_mode, num_points,
                                    NoneBool),
              ChanNone, NoneBool)

\* Oscilloscope.acq_type and Oscilloscope.num_averages (getters)
acq_type_get(st) == query(st, ":ACQuire:TYPE?", <<>>, st.dev.acq_type \o <<"\n">>)
num_averages_get(st) == query(st, ":ACQuire:COUNt?", <<>>, IntText(st.dev.count) \o <<"\n">>)

\* a header that names the count whatever the acquisition type
mode_line_always_count(st) ==
    Reply(st.dev.acq_type \o <<"\n">>) \o <<",">>
        \o Reply(IntText(st.dev.count) \o <<"\n">>) \o <<"\n">>

\* generate_file_header: f"{self.acq_type},{num_averages}\n"
mode_line(st) ==
    Reply(st.dev.acq_type \o <<"\n">>) \o <<",">>
        \o (IF Take(Reply(st.dev.acq_type \o <<"\n">>), 3) = <<"A","V","E">>
            THEN Reply(IntText(st.dev.count) \o <<"\n">>)
            ELSE <<"N","/","A">>)
        \o <<"\n">>

\* Oscilloscope.generate_file_header; now is str(dt.datetime.now()).  The
\* acquisition type is queried for the test and again for the mode line,
\* the count in between when the type starts with 'AVE'.
generate_file_header(st, channels, additional_line, timestamp, now) ==
    LET chs == IF channels.kind = "None" THEN st.capture_channels ELSE channels.v
        s3 == acq_type_get(
                IF Take(Reply(st.dev.acq_type \o <<"\n">>), 3) = <<"A","V","E">>
                THEN num_averages_get(acq_type_get(st))
                ELSE acq_type_get(st))
    IN  IF s3.err # "ok" THEN s3
        ELSE [s3 EXCEPT !.returned =
                st.id \o <<"\n">> \o mode_line(st)
                \o (IF timestamp THEN now \o <<"\n">> ELSE <<>>)
                \o (IF additional_line.some THEN additional_line.v \o <<"\n">> ELSE <<>>)
                \o <<"t","i","m","e",",">>
                \o Join([i \in 1..Len(chs) |-> IntText(chs[i])], <<",">>)]

----------------------------------------------------------------------------
(* keyoscacquire/fileio.py and the saving of traces *)

\* fileio.check_file: appends is what the user types at the prompts, one
\* entry per prompt; a prompt with no entry left is the EOFError of input()
RECURSIVE check_file(_, _, _, _, _)
check_file(exists, fname_, ext_, num, appends) ==
    IF ~((fname_ \o num \o ext_) \in exists) THEN [err |-> "ok", fname |-> fname_]
    ELSE IF Len(appends) = 0 THEN [err |-> "EOFError", fname |-> fname_]
    ELSE check_file(exists, fname_ \o appends[1], ext_, num, Tail(appends))

\* np.save, np.savetxt and fig.savefig: the file is created, or replaced
\* when it existed
WriteFile(st, name, kind) ==
    IF st.err # "ok" THEN st
    ELSE [st EXCEPT !.files = @ \cup {name},
                    !.saved = Append(@, [name |-> name, kind |-> kind,
                                         existed |-> name \in st.files])]

\* fileio.plot_trace
plot_trace(st, fname_, savepng_) ==
    IF savepng_ THEN WriteFile(st, fname_ \o tPng, "png") ELSE st

\* a save without the test for an existing file
fileio_save_trace_unchecked(st, fname_, ext_) ==
    IF st.err = "ok" /\ Len(st.time) # Len(st.values) THEN Raise(st, "ValueError")
    ELSE WriteFile(st, IF ext_ = tNpy THEN fname_ \o tNpy ELSE fname_ \o ext_, "trace")

\* fileio.save_trace of the session's trace; np.append needs as many rows
\* of voltages as of time values
fileio_save_trace(st, fname_, ext_) ==
    IF st.err = "ok" /\ (fname_ \o ext_) \in st.files THEN Raise(st, "RuntimeError")
    ELSE IF st.err = "ok" /\ Len(st.time) # Len(st.values) THEN Raise(st, "ValueError")
    ELSE WriteFile(st, IF ext_ = tNpy THEN fname_ \o tNpy ELSE fname_ \o ext_, "trace")

\* Oscilloscope.save_trace, the attributes: the arguments given, and an
\* extension found at the end of the file name moved to ext
save_attributes(st, fname_, ext_, savepng_) ==
    LET f == IF fname_.some THEN fname_.v ELSE st.fname
    IN  [st EXCEPT !.savepng = IF savepng_.some THEN savepng_.v ELSE @,
                   !.ext = IF SubSeq(f, Len(f) - 3, Len(f)) \in {tNpy, tCsv}
                           THEN SubSeq(f, Len(f) - 3, Len(f))
                           ELSE IF ext_.some THEN ext_.v ELSE @,
                   !.fname = IF SubSeq(f, Len(f) - 3, Len(f)) \in {tNpy, tCsv}
                             THEN SubSeq(f, 1, Len(f) - 4) ELSE f]

\* Oscilloscope.save_trace from check_file on
save_checked(st, checked, additional, now) ==
    IF checked.err # "ok" THEN Raise(st, checked.err)
    ELSE fileio_save_trace(
            generate_file_header(
                plot_trace([st EXCEPT !.fname = checked.fname], checked.fname, st.savepng),
                ChanNone, additional, TRUE, now),
            checked.fname, st.ext)

\* Oscilloscope.save_trace
save_trace(st, fname_, ext_, additional, savepng_, appends, now) ==
    IF st.err # "ok" \/ ~st.has_trace THEN st
    ELSE [save_checked(save_attributes(st, fname_, ext_, savepng_),
                       check_file(st.files,
                                  save_attributes(st, fname_, ext_, savepng_).fname,
                                  save_attributes(st, fname_, ext_, savepng_).ext,
                                  <<>>, appends),
                       additional, now)
            EXCEPT !.returned = <<>>]

\* Oscilloscope.set_options_get_trace_save
set_options_get_trace_save(st, fname_, ext_, channels, wav_format, acq_type, num_averages, p_mode, num_points, additional, appends, now) ==
    save_trace(set_options_get_trace(st, channels, wav_format, acq_type, num_averages,
                                     p_mode, num_points),
               fname_, ext_, additional, NoneBool, appends, now)

----------------------------------------------------------------------------
(* The session as a state machine: one action per call on the session *)

\* the record of a call: its name and its arguments (None where not given)
NoCall ==
    [op |-> "none", wav_format |-> None, acq_type |-> None, num_averages |-> NoneInt,
     p_mode |-> None, num_points |-> NoneInt, channels |-> ChanNone, set_running |-> TRUE,
     exc |-> FALSE, additional_line |-> None, timestamp |-> TRUE]

\* visa_utils.interpret_visa_id: [ok |-> FALSE] is the ValueError of
\* unpacking a reply that does not split into four fields
interpret_visa_id(idn) ==
    LET parts == Split(idn, <<",">>)
    IN  IF Len(parts) # 4 THEN [ok |-> FALSE, model_series |-> <<>>]
        ELSE LET model == parts[2]
                 model_number == SelectSeq(model, LAMBDA c : IndexIn(c, Digits) > 0)
             IN  [ok |-> TRUE,
                  model_series |->
                     IF Take(model, 3) \in {<<"D","S","O">>, <<"M","S","O">>}
                     THEN IF model_number # <<>>
                          THEN <<model_number[1], "0", "0", "0">>
                          ELSE <<"n","o","t"," ","f","o","u","n","d">>
                     ELSE <<"N","/","A">>]

\* '*IDN?' replies: a 2000 X-series and a 9000 series oscilloscope
idnDSOX2024A == <<"A","G","I","L","E","N","T"," ","T","E","C","H","N","O","L","O","G","I","E","S",",","D","S","O","-","X"," ","2","0","2","4","A",",","M","Y","1","2","3","4","5","6","7",",","1","2",".","3","4">>
idnMSO9104A == <<"K","E","Y","S","I","G","H","T"," ","T","E","C","H","N","O","L","O","G","I","E","S",",","M","S","O","9","1","0","4","A",",","M","Y","1","2","3","4","5","6","7","8",",","0","6",".","3","0">>
IDNs == {idnDSOX2024A, idnMSO9104A}

\* '*IDN?' replies of three and of five comma-separated fields
idnThreeFields == <<"A","C","M","E",",","D","S","O","1","0","0","2",",","0","1">>
idnFiveFields == <<"A","C","M","E",",","D","S","O","1","0","0","2",",","0","1",",","1",".","0",",","x">>

\* the bits of the operation register other than the run bit
RegisterOtherBits == {0, 32}

\* CHAN1..CHAN4 displayed (1) or not (0)
DisplayStates == [1..4 -> {0, 1}]

\* the instrument as the session finds it
DevInit(ids, runs, others, displays) ==
    { [acq_type |-> tNORM, count |-> 4, format |-> tBYTE, p_mode |-> tNORM,
       points |-> 0, acq_points |-> 0, wsrc |-> 1, acq |-> 0,
       unsigned |-> <<"O","N">>, byteorder |-> <<"M","S","B","F">>,
       idn |-> idn, series |-> interpret_visa_id(idn).model_series,
       running |-> r, reg_other |-> o, disp |-> d,
       link |-> "up", fault_at |-> 0, fault_then |-> "up", errors |-> 0] :
         idn \in ids, r \in runs, o \in others, d \in displays }

\* the session before __init__: the class attributes
InitSession ==
    /\ phase = "disconnected"
    /\ model_series = <<>>
    /\ capture_channels = <<>>
    /\ sources = <<>>
    /\ raw = <<>>
    /\ metadata = <<>>
    /\ time = <<>>
    /\ values = <<>>
    /\ has_trace = FALSE
    /\ verbose_acquistion = FALSE
    /\ call = NoCall
    /\ log = <<>>
    /\ result = "ok"
    /\ decodes = <<>>
    /\ id = <<>>
    /\ errors = <<>>
    /\ returned = <<>>
    /\ fname = tData
    /\ ext = tCsv
    /\ savepng = TRUE
    /\ files = {}
    /\ saved = <<>>

\* the attributes and the instrument are left as the call left them, also
\* when it raised
Finish(st, c, ph) ==
    /\ phase' = ph
    /\ dev' = st.dev
    /\ model_series' = st.model_series
    /\ capture_channels' = st.capture_channels
    /\ sources' = st.sources
    /\ raw' = st.raw
    /\ metadata' = st.metadata
    /\ time' = st.time
    /\ values' = st.values
    /\ has_trace' = st.has_trace
    /\ verbose_acquistion' = st.verbose_acquistion
    /\ log' = st.log
    /\ result' = st.err
    /\ decodes' = st.decodes
    /\ id' = st.id
    /\ errors' = st.errors
    /\ returned' = st.returned
    /\ fname' = st.fname
    /\ ext' = st.ext
    /\ savepng' = st.savepng
    /\ files' = st.files
    /\ saved' = st.saved
    /\ call' = c

\* Oscilloscope.__init__ with config._waveform_format, config._p_mode and
\* config._num_points; a reply that cannot be interpreted leaves
\* _model_series unset, and reading it is an AttributeError
connect(st, verbose) ==
    LET s1 == write(st, Cmd("*CLS", <<>>, <<>>))
        s2 == write(s1, Cmd(":WAVeform:UNSigned", <<"O","F","F">>, <<>>))
        s3 == write(s2, Cmd(":WAVeform:BYTeorder", <<"L","S","B","F","i","r","s","t">>, <<>>))
        s4 == query(s3, "*IDN?", <<>>, s3.dev.idn \o <<"\n">>)
        idn == interpret_visa_id(Reply(s3.dev.idn \o <<"\n">>))
        s5 == IF s4.err # "ok" THEN s4
              ELSE IF ~idn.ok THEN Raise([s4 EXCEPT !.id = Reply(s3.dev.idn \o <<"\n">>)],
                                         "AttributeError")
              ELSE [s4 EXCEPT !.id = Reply(s3.dev.idn \o <<"\n">>),
                              !.model_series = idn.model_series]
        s6 == set_acquiring_options(s5, Some(tWORD), None, NoneInt, Some(tRAW), Some(0), NoneBool)
        s7 == set_channels_for_capture(s6, ChanActive)
    IN  IF s7.err = "ok" THEN [s7 EXCEPT !.verbose_acquistion = verbose] ELSE s7

Connect(verbose) ==
    /\ phase = "disconnected"
    /\ LET st == connect(Start, verbose)
       IN  Finish(st, [NoCall EXCEPT !.op = "__init__"],
                  IF st.err = "ok" THEN "connected" ELSE "failed")

SetAcqType(a_type) ==
    /\ phase = "connected"
    /\ Finish(acq_type_set(Start, a_type),
              [NoCall EXCEPT !.op = "acq_type", !.acq_type = Some(a_type)], phase)

SetNumAverages(num) ==
    /\ phase = "connected"
    /\ Finish(num_averages_set(Start, num),
              [NoCall EXCEPT !.op = "num_averages", !.num_averages = Some(num)], phase)

SetPMode(p_mode) ==
    /\ phase = "connected"
    /\ Finish(p_mode_set(Start, p_mode),
              [NoCall EXCEPT !.op = "p_mode", !.p_mode = Some(p_mode)], phase)

SetNumPoints(num_points) ==
    /\ phase = "connected"
    /\ Finish(num_points_set(Start, num_points),
              [NoCall EXCEPT !.op = "num_points", !.num_points = Some(num_points)], phase)

SetWavFormat(wav_format) ==
    /\ phase = "connected"
    /\ Finish(wav_format_set(Start, wav_format),
              [NoCall EXCEPT !.op = "wav_format", !.wav_format = Some(wav_format)], phase)

SetAcquiringOptions(wav_format, acq_type, num_averages, p_mode, num_points) ==
    /\ phase = "connected"
    /\ Finish(set_acquiring_options(Start, wav_format, acq_type, num_averages, p_mode,
                                    num_points, NoneBool),
              [NoCall EXCEPT !.op = "set_acquiring_options", !.wav_format = wav_format,
                             !.acq_type = acq_type, !.num_averages = num_averages,
                             !.p_mode = p_mode, !.num_points = num_points], phase)

SetActiveChannels(channels) ==
    /\ phase = "connected"
    /\ Finish(active_channels_set(Start, channels, 1),
              [NoCall EXCEPT !.op = "active_channels", !.channels = ChanList(channels)], phase)

SetChannelsForCapture(channels) ==
    /\ phase = "connected"
    /\ Finish(set_channels_for_capture(Start, channels),
              [NoCall EXCEPT !.op = "set_channels_for_capture", !.channels = channels], phase)

Run ==
    /\ phase = "connected"
    /\ Finish(run(Start), [NoCall EXCEPT !.op = "run"], phase)

Stop ==
    /\ phase = "connected"
    /\ Finish(stop(Start), [NoCall EXCEPT !.op = "stop"], phase)

\* a capture digitizes at most once; the model stops capturing when the
\* instrument has taken MaxAcq acquisitions
CaptureAndRead(set_running) ==
    /\ phase = "connected"
    /\ dev.acq < MaxAcq
    /\ Finish(capture_and_read(Start, set_running),
              [NoCall EXCEPT !.op = "capture_and_read", !.set_running = set_running], phase)

GetTrace(channels) ==
    /\ phase = "connected"
    /\ dev.acq < MaxAcq
    /\ Finish(get_trace(Start, channels, NoneBool),
              [NoCall EXCEPT !.op = "get_trace", !.channels = channels], phase)

\* dataprocessing.process_data, as get_trace calls it, on blocks and metadata
\* not decoded yet; time and values hold what it returns
ProcessData ==
    /\ call.op = "none"
    /\ Finish(decode_trace(Start),
              [NoCall EXCEPT !.op = "process_data", !.wav_format = Some(dev.format)], phase)

GenerateFileHeader(channels, additional_line, timestamp, now) ==
    /\ phase = "connected"
    /\ Finish(generate_file_header(Start, channels, additional_line, timestamp, now),
              [NoCall EXCEPT !.op = "generate_file_header", !.channels = channels,
                             !.additional_line = additional_line, !.timestamp = timestamp],
              phase)

\* a file and a png cannot be saved once MaxFiles files exist
SaveTrace(fname_, ext_, savepng_, appends, now) ==
    /\ phase = "connected"
    /\ Cardinality(files) + 2 <= MaxFiles
    /\ Finish(save_trace(Start, fname_, ext_, None, savepng_, appends, now),
              [NoCall EXCEPT !.op = "save_trace"], phase)

SetOptionsGetTraceSave(fname_, appends, now) ==
    /\ phase = "connected"
    /\ dev.acq < MaxAcq
    /\ Cardinality(files) + 2 <= MaxFiles
    /\ Finish(set_options_get_trace_save(Start, fname_, None, ChanNone, None, None, NoneInt,
                                         None, NoneInt, None, appends, now),
              [NoCall EXCEPT !.op = "set_options_get_trace_save"], phase)

\* fileio.save_trace called with the session's trace, file name and extension
FileioSaveTrace ==
    /\ Cardinality(files) < MaxFiles
    /\ Finish(fileio_save_trace(Start, fname, ext),
              [NoCall EXCEPT !.op = "fileio.save_trace"], phase)

\* another program creates a file
Touch(name) ==
    /\ Cardinality(files) < MaxFiles
    /\ ~(name \in files)
    /\ files' = files \cup {name}
    /\ UNCHANGED <<phase, dev, model_series, capture_channels, sources, raw, metadata, time,
                   values, has_trace, verbose_acquistion, call, log, result, decodes,
                   id, errors, returned, fname, ext, savepng, saved>>

\* the session is over once the transport is released
Close(set_running) ==
    /\ phase = "connected"
    /\ Finish(close(Start, set_running),
              [NoCall EXCEPT !.op = "close", !.set_running = set_running],
              IF close(Start, set_running).released THEN "closed" ELSE phase)

\* leaving the with-block, after an exception in it (exc) or without one
Exit(exc) ==
    /\ phase = "connected"
    /\ Finish(exit(Start, exc),
              [NoCall EXCEPT !.op = "__exit__", !.set_running = ~exc, !.exc = exc],
              IF exit(Start, exc).released THEN "closed" ELSE phase)

GetFullErrorQueue ==
    /\ phase = "connected"
    /\ Finish(get_full_error_queue(Start), [NoCall EXCEPT !.op = "get_full_error_queue"], phase)

\* The instrument queues errors of its own.
QueueErrors(queued) ==
    /\ phase = "connected"
    /\ dev.errors = 0
    /\ dev' = [dev EXCEPT !.errors = queued]
    /\ UNCHANGED <<phase, model_series, capture_channels, sources, raw, metadata, time,
                   values, has_trace, verbose_acquistion, call, log, result, decodes,
                   id, errors, returned, fname, ext, savepng, files, saved>>

\* The transport is disturbed: the delay-th read from now raises
\* pyvisa.Error, the link is up or down afterwards, and the instrument has
\* queued some errors.
Disturb(delay, then, queued) ==
    /\ phase = "connected"
    /\ dev.link = "up" /\ dev.fault_at = 0
    /\ dev' = [dev EXCEPT !.fault_at = delay, !.fault_then = then, !.errors = queued]
    /\ UNCHANGED <<phase, model_series, capture_channels, sources, raw, metadata, time,
                   values, has_trace, verbose_acquistion, call, log, result, decodes,
                   id, errors, returned, fname, ext, savepng, files, saved>>

----------------------------------------------------------------------------
(* Arguments the calls are made with *)

tAVER1 == <<"A","V","E","R","1">>
tAVER2 == <<"A","V","E","R","2">>
tAVER65536 == <<"A","V","E","R","6","5","5","3","6">>
tAVER65537 == <<"A","V","E","R","6","5","5","3","7">>
tAVER8x == <<"A","V","E","R","8","x">>
tBIN == <<"B","I","N">>

AcqTypeTokens == {tHRESolution, tAVER, tAVERage, tAVER1, tAVER2, tAVER65536, tAVER65537, tAVER8x}
AverageCounts == {1, 2, 65536, 65537}
PointsModes == {tRAW, tNORMal}
WaveformFormats == {tWORD, tBYTE, tASCii, tBIN}
PointCounts == {0, 8000, 0 - 1}
ChannelArgs == {ChanNone, ChanActive, ChanList(<<>>), ChanList(<<3, 1>>), ChanList(<<2>>)}

CaptureChannelArgs == {ChanNone, ChanActive, ChanList(<<3, 1>>)}

Opt(S) == {[some |-> TRUE, v |-> x] : x \in S}

(* Configuration: the setters and set_acquiring_options.                   *)
Init ==
    /\ InitSession
    /\ dev \in DevInit({idnDSOX2024A}, BOOLEAN, {0},
                       {[i \in 1..4 |-> IF i \in {1, 3} THEN 1 ELSE 0]})

Next ==
    \/ Connect(TRUE)
    \/ \E a \in AcqTypeTokens : SetAcqType(a)
    \/ \E n \in AverageCounts : SetNumAverages(n)
    \/ \E p \in PointsModes : SetPMode(p)
    \/ \E n \in PointCounts : SetNumPoints(n)
    \/ \E a \in Opt(AcqTypeTokens) \cup {None}, n \in Opt(AverageCounts) \cup {NoneInt},
          p \in Opt(PointsModes) \cup {None} :
            SetAcquiringOptions(None, a, n, p, NoneInt)
    \/ \E n \in Opt(PointCounts), p \in Opt(PointsModes) \cup {None} :
            SetAcquiringOptions(None, None, NoneInt, p, n)
    \/ \E f \in Opt({tWORD, tASCii}) : SetAcquiringOptions(f, None, NoneInt, None, NoneInt)
    \/ \E c \in {ChanActive, ChanList(<<3, 1>>)} : SetChannelsForCapture(c)

Spec == Init /\ [][Next]_vars

(* Capture: channel selection, waveform format, run state and the capture  *)
(* calls.                                                                  *)
InitCapture ==
    /\ InitSession
    /\ dev \in DevInit({idnDSOX2024A}, BOOLEAN, RegisterOtherBits,
                       {[i \in 1..4 |-> 0], [i \in 1..4 |-> IF i \in {1, 3} THEN 1 ELSE 0]})

NextCapture ==
    \/ \E verbose \in BOOLEAN : Connect(verbose)
    \/ \E f \in WaveformFormats : SetWavFormat(f)
    \/ \E c \in CaptureChannelArgs : SetChannelsForCapture(c)
    \/ Run
    \/ Stop
    \/ \E r \in BOOLEAN : CaptureAndRead(r)
    \/ \E c \in CaptureChannelArgs : GetTrace(c)

SpecCapture == InitCapture /\ [][NextCapture]_vars

(* Channel resolution: every combination of displayed channels.            *)
InitChannels ==
    /\ InitSession
    /\ dev \in DevInit({idnDSOX2024A}, BOOLEAN, {0}, DisplayStates)

NextChannels ==
    \/ Connect(TRUE)
    \/ \E c \in ChannelArgs : SetChannelsForCapture(c)

SpecChannels == InitChannels /\ [][NextChannels]_vars

(* Session: transport faults and the end of the session.                   *)
InitFaults ==
    /\ InitSession
    /\ dev \in DevInit({idnDSOX2024A}, BOOLEAN, {0},
                       {[i \in 1..4 |-> IF i \in {1, 3} THEN 1 ELSE 0]})

NextFaults ==
    \/ Connect(TRUE)
    \/ \E delay \in 1..MaxFaultDelay, then \in {"up", "down"}, queued \in {0, MaxQueued} :
          Disturb(delay, then, queued)
    \/ SetWavFormat(tASCii)
    \/ SetChannelsForCapture(ChanActive)
    \/ CaptureAndRead(FALSE)
    \/ GetTrace(ChanNone)
    \/ \E set_running \in BOOLEAN : Close(set_running)
    \/ \E exc \in BOOLEAN : Exit(exc)

SpecFaults == InitFaults /\ [][NextFaults]_vars

(* File header: the acquisition type, the count and the capture channels  *)
(* that generate_file_header reports.                                      *)

\* str(dt.datetime.now()) at the moment of the call
Clock ==
    {<<"2","0","1","9","-","0","9","-","0","6"," ","2","0",":","0","1",":","1","5",".","1","8","7","5","9","8">>,
     <<"2","0","1","9","-","0","9","-","0","6"," ","2","0",":","0","1",":","1","6">>}

tMyComment == <<"m","y"," ","c","o","m","m","e","n","t">>

InitHeader ==
    /\ InitSession
    /\ dev \in DevInit(IDNs, {TRUE}, {0}, {[i \in 1..4 |-> IF i \in {1, 3} THEN 1 ELSE 0]})

NextHeader ==
    \/ Connect(TRUE)
    \/ \E a \in {tAVER, tHRESolution, tNORMal} : SetAcqType(a)
    \/ SetNumAverages(8)
    \/ \E c \in {ChanActive, ChanList(<<3, 1>>)} : SetChannelsForCapture(c)
    \/ \E c \in {ChanNone, ChanList(<<>>), ChanList(<<2, 1>>)},
          a \in {None, Some(<<>>), Some(tMyComment)}, t \in BOOLEAN, now \in Clock :
            GenerateFileHeader(c, a, t, now)

SpecHeader == InitHeader /\ [][NextHeader]_vars

(* Saving: the files a session writes next to those that exist.            *)

t_1 == <<"_","1">>

InitFiles ==
    /\ InitSession
    /\ dev \in DevInit({idnDSOX2024A}, {TRUE}, {0},
                       {[i \in 1..4 |-> IF i \in {1, 3} THEN 1 ELSE 0]})

NextFiles ==
    \/ Connect(TRUE)
    \/ \E name \in {tData \o tCsv, tData \o tPng, tData \o t_1 \o tPng} : Touch(name)
    \/ \E f \in {None, Some(tData), Some(tData \o tNpy)}, x \in {None, Some(tNpy), Some(tCsv)},
          p \in {NoneBool, [some |-> TRUE, v |-> FALSE]},
          appends \in {<<>>, <<t_1>>, <<t_1, t_1>>} :
            \E now \in Clock : SaveTrace(f, x, p, appends, now)
    \/ \E appends \in {<<>>, <<t_1>>} :
            \E now \in Clock : SetOptionsGetTraceSave(Some(tData), appends, now)
    \/ FileioSaveTrace

SpecFiles == InitFiles /\ [][NextFiles]_vars

(* Point counts: positive counts on either side of 7680, on an instrument  *)
(* of the 2000 and of the 9000 series.                                     *)
PositiveCounts == {100, 7680, 7681, 8000}

InitPoints ==
    /\ InitSession
    /\ dev \in DevInit(IDNs, BOOLEAN, {0}, {[i \in 1..4 |-> IF i \in {1, 3} THEN 1 ELSE 0]})

NextPoints ==
    \/ Connect(TRUE)
    \/ \E a \in {tAVER, tHRESolution} : SetAcqType(a)
    \/ \E p \in PointsModes : SetPMode(p)
    \/ \E n \in PositiveCounts : SetNumPoints(n)
    \/ \E n \in PositiveCounts : SetAcquiringOptions(None, None, NoneInt, None, Some(n))
    \/ Stop

SpecPoints == InitPoints /\ [][NextPoints]_vars

(* Failing captures: get_trace on a transport that raises on one of its    *)
(* reads, with a waveform format or a channel selection that cannot be     *)
(* captured or decoded.                                                    *)
FaultDelays == {2, MaxFaultDelay, MaxFaultDelay + 2}

InitFailures ==
    /\ InitSession
    /\ dev \in DevInit({idnDSOX2024A}, BOOLEAN, {0},
                       {[i \in 1..4 |-> 0], [i \in 1..4 |-> IF i \in {1, 3} THEN 1 ELSE 0]})

NextFailures ==
    \/ Connect(FALSE)
    \/ \E delay \in FaultDelays, then \in {"up", "down"} : Disturb(delay, then, 1)
    \/ \E f \in {tWORD, tASCii, tBIN} : SetWavFormat(f)
    \/ \E c \in CaptureChannelArgs : GetTrace(c)

SpecFailures == InitFailures /\ [][NextFailures]_vars

(* Error queue: the queue read on its own and after a query that raised,   *)
(* with queues shorter and longer than the 30 rounds of the loop.          *)
ErrorCounts == {MaxQueued, 29, 30, 31}

InitErrors ==
    /\ InitSession
    /\ dev \in DevInit({idnDSOX2024A}, {TRUE}, {0}, {[i \in 1..4 |-> IF i \in {1, 3} THEN 1 ELSE 0]})

NextErrors ==
    \/ Connect(TRUE)
    \/ \E queued \in ErrorCounts : QueueErrors(queued)
    \/ \E delay \in {1, 3, 30}, then \in {"up", "down"}, queued \in ErrorCounts :
          Disturb(delay, then, queued)
    \/ GetFullErrorQueue
    \/ SetChannelsForCapture(ChanActive)

SpecErrors == InitErrors /\ [][NextErrors]_vars

(* Identity: sessions opened on instruments whose '*IDN?' reply has four   *)
(* fields and on instruments whose reply has three or five.                *)
InitIdentity ==
    /\ InitSession
    /\ dev \in DevInit(IDNs \cup {idnThreeFields, idnFiveFields}, BOOLEAN, {0}, DisplayStates)

NextIdentity ==
    \/ \E verbose \in BOOLEAN : Connect(verbose)
    \/ SetChannelsForCapture(ChanActive)
    \/ Stop

SpecIdentity == InitIdentity /\ [][NextIdentity]_vars

(* Frozen acquisition: the waveform format is changed between captures of  *)
(* an instrument that is found stopped or running.                         *)
InitFrozen ==
    /\ InitSession
    /\ dev \in DevInit({idnDSOX2024A}, BOOLEAN, RegisterOtherBits,
                       {[i \in 1..4 |-> IF i \in {1, 3} THEN 1 ELSE 0]})

NextFrozen ==
    \/ \E verbose \in BOOLEAN : Connect(verbose)
    \/ \E f \in {tWORD, tBYTE, tASCii} :
            SetAcquiringOptions(Some(f), None, NoneInt, None, NoneInt)
    \/ \E r \in BOOLEAN : CaptureAndRead(r)
    \/ Stop

SpecFrozen == InitFrozen /\ [][NextFrozen]_vars

(* Active channels: the displayed channels are changed after connecting.   *)
InitActive ==
    /\ InitSession
    /\ dev \in DevInit({idnDSOX2024A}, BOOLEAN, {0},
                       {[i \in 1..4 |-> IF i \in {1, 3} THEN 1 ELSE 0]})

NextActive ==
    \/ Connect(TRUE)
    \/ \E c \in {<<>>, <<1>>, <<2>>, <<1, 3>>, <<2, 4>>, <<1, 2, 3, 4>>} : SetActiveChannels(c)
    \/ \E c \in {ChanNone, ChanActive} : SetChannelsForCapture(c)
    \/ \E c \in {ChanNone, ChanList(<<4>>)} : GetTrace(c)

SpecActive == InitActive /\ [][NextActive]_vars

(* Decoding: process_data on the blocks and preambles a capture hands it.  *)
(* The inputs are drawn in the initial state; the waveform format is the   *)
(* one the instrument reports.                                             *)

\* sample counts a preamble names and a block holds: 0..MaxSamples
MaxSamples == 3

\* <<xincrement, xorigin, xreference>> and <<yincrement, yorigin, yreference>>
XScales == {<<1, 0, 0>>, <<2, 5, 1>>}
YScales == {<<1, 0, 0>>, <<2, 3, 1>>}

\* the ten fields of a preamble, the points field given as text
PreambleFields(points, xs, ys) ==
    << <<"1">>, <<"0">>, points, <<"1">>, IntText(xs[1]), IntText(xs[2]), IntText(xs[3]),
       IntText(ys[1]), IntText(ys[2]), IntText(ys[3]) >>

PreambleText(fields) == Join(fields, <<",">>)

GoodPreambles(counts, xscales) ==
    {PreambleText(PreambleFields(IntText(n), xs, ys)) :
        n \in counts, xs \in xscales, ys \in YScales}

PlainFields == PreambleFields(<<"2">>, <<1, 0, 0>>, <<1, 0, 0>>)

\* preambles that are not ten numbers: a points field that is not a whole
\* number or not a number, three fields only, a letter for xincrement
BadPreambles ==
    {PreambleText([PlainFields EXCEPT ![3] = <<"2", ".", "5">>]),
     PreambleText([PlainFields EXCEPT ![3] = <<"x">>]),
     PreambleText(SubSeq(PlainFields, 1, 3)),
     PreambleText([PlainFields EXCEPT ![5] = <<"x">>])}

\* ... and those that lack only what the binary decoder reads: eight
\* fields, a letter for yorigin
BadBinaryPreambles ==
    {PreambleText(SubSeq(PlainFields, 1, 8)),
     PreambleText([PlainFields EXCEPT ![9] = <<"x">>])}

\* blocks of 0..MaxSamples consecutive raw values
SampleBlocks(counts) == {[k \in 1..n |-> base + k] : n \in counts, base \in {0 - 1, 3}}

\* the reply to ':WAVeform:DATA?' in ASCii that carries the voltages vals
AsciiBlockOf(series, vals) ==
    LET volts == Join([k \in 1..Len(vals) |-> IntText(vals[k])], <<",">>)
    IN  IF series = <<"2","0","0","0">>
        THEN <<"#","8","0","0","0","0","0","0","1","3">> \o volts
        ELSE IF series = <<"9","0","0","0">> THEN volts \o <<",">>
        ELSE volts

\* what _read_binary hands over for zero, one or two channels
BinaryInputs ==
    {[raw |-> <<>>, metadata |-> <<>>]}
    \cup {[raw |-> <<b>>, metadata |-> <<p>>] :
            b \in SampleBlocks(0..MaxSamples),
            p \in GoodPreambles(0..MaxSamples, XScales) \cup BadPreambles
                    \cup BadBinaryPreambles}
    \cup {[raw |-> <<b1, b2>>, metadata |-> <<p1, p2>>] :
            b1 \in SampleBlocks(1..MaxSamples), b2 \in SampleBlocks(1..MaxSamples),
            p1 \in GoodPreambles(1..MaxSamples, {<<1, 0, 0>>}) \cup BadPreambles,
            p2 \in GoodPreambles({MaxSamples}, {<<1, 0, 0>>}) \cup BadBinaryPreambles}

\* ... and _read_ascii
AsciiInputs ==
    {[raw |-> [i \in 1..Len(vs) |-> AsciiBlockOf(series, vs[i])],
      metadata |-> <<p, series>>] :
        vs \in {<<>>} \cup {<<v>> : v \in SampleBlocks(1..MaxSamples)}
                \cup {<<v1, v2>> : v1 \in SampleBlocks({1, MaxSamples}),
                                   v2 \in SampleBlocks({MaxSamples})},
        p \in GoodPreambles(0..MaxSamples, XScales) \cup BadPreambles
                \cup BadBinaryPreambles,
        series \in {<<"2","0","0","0">>, <<"9","0","0","0">>}}

InitDecode ==
    /\ phase = "disconnected"
    /\ model_series = <<>>
    /\ capture_channels = <<>>
    /\ sources = <<>>
    /\ time = <<>>
    /\ values = <<>>
    /\ has_trace = FALSE
    /\ verbose_acquistion = FALSE
    /\ call = NoCall
    /\ log = <<>>
    /\ result = "ok"
    /\ decodes = <<>>
    /\ id = <<>>
    /\ errors = <<>>
    /\ returned = <<>>
    /\ fname = tData
    /\ ext = tCsv
    /\ savepng = TRUE
    /\ files = {}
    /\ saved = <<>>
    /\ \E d \in DevInit({idnDSOX2024A}, {FALSE}, {0}, {[i \in 1..4 |-> 0]}) :
          \/ \E f \in {tWORD, tBYTE}, in \in BinaryInputs :
                dev = [d EXCEPT !.format = f] /\ raw = in.raw /\ metadata = in.metadata
          \/ \E in \in AsciiInputs :
                dev = [d EXCEPT !.format = tASCii] /\ raw = in.raw /\ metadata = in.metadata
          \/ dev = [d EXCEPT !.format = tBIN] /\ raw = <<>> /\ metadata = <<>>

NextDecode == ProcessData

\* ASCii blocks in the form of each instrument family, as query() returns
\* them and with the line end still on, decoded under every model series
AsciiFamilies == {<<"2","0","0","0">>, <<"9","0","0","0">>, <<"3","0","0","0">>}

AsciiFamilyInputs ==
    {[raw |-> [i \in 1..Len(vs) |-> AsciiBlockOf(form, vs[i]) \o end],
      metadata |-> <<PreambleText(PreambleFields(IntText(Len(vs[1])), <<1, 0, 0>>, <<1, 0, 0>>)),
                     series>>] :
        vs \in {<<v>> : v \in SampleBlocks(1..MaxSamples)}
                \cup {<<v1, v2>> : v1 \in SampleBlocks({MaxSamples}),
                                   v2 \in SampleBlocks({MaxSamples})},
        form \in AsciiFamilies, series \in AsciiFamilies, end \in {<<>>, <<"\n">>}}

InitAscii ==
    /\ phase = "disconnected"
    /\ model_series = <<>>
    /\ capture_channels = <<>>
    /\ sources = <<>>
    /\ time = <<>>
    /\ values = <<>>
    /\ has_trace = FALSE
    /\ verbose_acquistion = FALSE
    /\ call = NoCall
    /\ log = <<>>
    /\ result = "ok"
    /\ decodes = <<>>
    /\ id = <<>>
    /\ errors = <<>>
    /\ returned = <<>>
    /\ fname = tData
    /\ ext = tCsv
    /\ savepng = TRUE
    /\ files = {}
    /\ saved = <<>>
    /\ \E d \in DevInit({idnDSOX2024A}, {FALSE}, {0}, {[i \in 1..4 |-> 0]}),
          in \in AsciiFamilyInputs :
            dev = [d EXCEPT !.format = tASCii] /\ raw = in.raw /\ metadata = in.metadata

SpecAscii == InitAscii /\ [][NextDecode]_vars

SpecDecode == InitDecode /\ [][NextDecode]_vars

----------------------------------------------------------------------------
(* Properties *)

WriteHeaders ==
    {"*CLS", ":ACQuire:TYPE", ":ACQuire:COUNt", ":WAVeform:FORMat", ":WAVeform:POINts:MODE",
     ":WAVeform:POINts", ":ACQuire:POINts", ":WAVeform:SOURce", ":CHAN:DISP", ":DIGitize",
     ":RUN", ":STOP", ":WAVeform:UNSigned", ":WAVeform:BYTeorder"}

\* the commands of the last call with one of the headers hs, in order
Issued(hs) == SelectSeq(log, LAMBDA cmd : cmd.c \in hs)

\* the positions in the log of the commands with header h
Positions(h) == {i \in 1..Len(log) : log[i].c = h}

InRange(n) == 2 <= n /\ n <= 65536

\* the last call carries an 'AVER<m>' token (any case) whose suffix is not 'age'
TokenCall ==
    /\ call.op \in {"acq_type", "set_acquiring_options"}
    /\ call.acq_type.some
    /\ Len(call.acq_type.v) > 4
    /\ Upper(SubSeq(call.acq_type.v, 1, 4)) = <<"A","V","E","R">>
    /\ Lower(SubSeq(call.acq_type.v, 5, Len(call.acq_type.v))) # <<"a","g","e">>

TokenSuffix == SubSeq(call.acq_type.v, 5, Len(call.acq_type.v))
TokenIsCount == TokenCall /\ IsDigits(TokenSuffix)
TokenCount == DigitsValue(TokenSuffix)

\* the last call carries a num_averages argument
CountCall ==
    /\ call.op \in {"num_averages", "set_acquiring_options"}
    /\ call.num_averages.some

\* C1: setting the averaging count n, through the num_averages setter, the
\* num_averages argument or an 'AVER<n>' token, raises a ValueError when n is
\* outside 2..65536, and otherwise succeeds and writes ':ACQuire:COUNt n'.
C1_CountRangeChecked ==
    /\ CountCall /\ ~InRange(call.num_averages.v) => result = "ValueError"
    /\ TokenIsCount /\ ~InRange(TokenCount) => result = "ValueError"
    /\ CountCall /\ InRange(call.num_averages.v) /\ (TokenIsCount => InRange(TokenCount))
          => /\ result = "ok"
             /\ \E i \in Positions(":ACQuire:COUNt") : log[i].n = <<call.num_averages.v>>
    /\ TokenIsCount /\ InRange(TokenCount) /\ (CountCall => InRange(call.num_averages.v))
          => /\ result = "ok"
             /\ \E i \in Positions(":ACQuire:COUNt") : log[i].n = <<TokenCount>>

\* the last call carries an averaging count outside 2..65536
OutOfRangeCall ==
    /\ call.op \in {"acq_type", "num_averages", "set_acquiring_options"}
    /\ \/ CountCall /\ ~InRange(call.num_averages.v)
       \/ TokenIsCount /\ ~InRange(TokenCount)

\* C7: a configuration call that carries an out-of-range averaging count
\* raises a ValueError, has written no command to the instrument, and leaves
\* the instrument's acquisition type and averaging count as they were.
C7_RangeErrorBeforeAnyWrite ==
    [][ OutOfRangeCall' =>
          /\ result' = "ValueError"
          /\ Issued(WriteHeaders)' = <<>>
          /\ dev'.acq_type = dev.acq_type
          /\ dev'.count = dev.count ]_vars

\* C8: an 'AVER<m>' token whose suffix is not an integer (and not 'age')
\* raises a ValueError to the caller.
C8_BadTokenRaises ==
    TokenCall /\ ~ParseDigits(TokenSuffix).ok => result = "ValueError"

\* the last call asks for a points mode that does not start with NORM
OtherPointsModeCall ==
    /\ call.op \in {"p_mode", "set_acquiring_options"}
    /\ call.p_mode.some
    /\ SubSeq(call.p_mode.v, 1, IF Len(call.p_mode.v) < 4 THEN Len(call.p_mode.v) ELSE 4)
          # <<"N","O","R","M">>

\* C5: when the acquisition type is Averaging and a points mode other than
\* NORMal is requested (in a call whose averaging count, if it carries one,
\* is in range), every points mode command the call writes says NORM, one is
\* written, and the call raises nothing.
C5_AveragingForcesNormal ==
    /\ OtherPointsModeCall
    /\ dev.acq_type = <<"A","V","E","R">>
    /\ (call.num_averages.some => InRange(call.num_averages.v))
    => /\ result = "ok"
       /\ Issued({":WAVeform:POINts:MODE"}) # <<>>
       /\ \A i \in Positions(":WAVeform:POINts:MODE") : log[i].s = <<"N","O","R","M">>

C5_Witness ==
    /\ call.op = "set_acquiring_options"
    /\ call.acq_type = Some(tAVER2)
    /\ call.p_mode = Some(tRAW)
    /\ result = "ok"
    /\ dev.acq_type = tAVER
    /\ dev.p_mode = tNORM

\* the last call is a capture
CaptureCall == call.op \in {"capture_and_read", "get_trace"}

\* the waveform format the capture was told by the instrument
CaptureFormat == SubSeq(log[1].s, 1, IF Len(log[1].s) < 3 THEN Len(log[1].s) ELSE 3)
BinaryCapture ==
    /\ CaptureCall /\ log # <<>> /\ log[1].c = ":WAVeform:FORMat?"
    /\ CaptureFormat \in {<<"W","O","R">>, <<"B","Y","T">>}
AsciiCapture ==
    /\ CaptureCall /\ log # <<>> /\ log[1].c = ":WAVeform:FORMat?"
    /\ CaptureFormat = <<"A","S","C">>

\* the channels the ':WAVeform:SOURce' commands of the last call selected
SourcesSelected ==
    [i \in 1..Len(Issued({":WAVeform:SOURce"})) |-> Issued({":WAVeform:SOURce"})[i].n[1]]

\* the voltages the instrument holds for channel ch in acquisition a
HeldVolts(ch, a) == [k \in 1..NumSamples |-> DevVolts(dev, ch, DevSample(ch, a, k - 1))]

Polled == \E i \in 1..Len(log) : log[i].c = ":OPERegister:CONDition?"
PolledRegister == DigitsValue(log[CHOOSE i \in 1..Len(log) : log[i].c = ":OPERegister:CONDition?"].s)
PolledRunBit == (PolledRegister \div 8) % 2 = 1

\* the blocks a capture of the channels chs reads in acquisition a
HeldBlocks(binary, d, chs, a) ==
    [i \in 1..Len(chs) |->
        IF binary THEN DevBinaryBlock([d EXCEPT !.wsrc = chs[i], !.acq = a])
        ELSE Strip(DevAsciiBlock([d EXCEPT !.wsrc = chs[i], !.acq = a]))]

C3_AfterCapture ==
    CaptureCall /\ Polled =>
        IF PolledRunBit
        THEN /\ Cardinality(Positions(":DIGitize")) = 1
             /\ \A d \in Positions(":DIGitize") :
                   /\ log[d].n = sources
                   /\ \A w \in Positions(":WAVeform:SOURce") : d < w
        ELSE Positions(":DIGitize") = {}

\* C3: in one capture, a poll reply with the run bit set is followed by
\* exactly one ':DIGitize' naming all capture sources, written before any
\* ':WAVeform:SOURce'; with the bit clear no ':DIGitize' is written, the
\* instrument keeps the acquisition it held, and that acquisition is read.
C3_DigitizeIffRunning ==
    [][ /\ C3_AfterCapture'
        /\ (CaptureCall /\ Polled /\ ~PolledRunBit)'
           => /\ dev'.acq = dev.acq
              /\ (result' = "ok" /\ (BinaryCapture \/ AsciiCapture)'
                    => raw' = HeldBlocks(BinaryCapture', dev', sources', dev.acq)) ]_vars

C3_Witness ==
    /\ CaptureCall /\ Polled /\ PolledRunBit /\ PolledRegister # 8
    /\ result = "ok"
    /\ Len(sources) = 2
    /\ Cardinality(Positions(":DIGitize")) = 1

\* the commands of the last call that select a source or read from it
ReadCommands == Issued({":WAVeform:SOURce", ":WAVeform:PREamble?", ":WAVeform:DATA?"})

\* C4: a binary capture issues, for each capture channel in order,
\* ':WAVeform:SOURce <ch>', ':WAVeform:PREamble?' and ':WAVeform:DATA?' one
\* after the other with nothing in between, and the i-th stored preamble and
\* the i-th stored block are those of the i-th capture channel.
C4_BinaryReadInterleaved ==
    BinaryCapture /\ result = "ok" =>
        /\ Len(ReadCommands) = 3 * Len(sources)
        /\ Len(metadata) = Len(sources)
        /\ Len(raw) = Len(sources)
        /\ \A i \in 1..Len(sources) :
              /\ \E j \in 1..Len(log) - 2 :
                    /\ log[j] = Cmd(":WAVeform:SOURce", <<>>, <<sources[i]>>)
                    /\ log[j + 1].c = ":WAVeform:PREamble?"
                    /\ log[j + 2].c = ":WAVeform:DATA?"
                    /\ log[j] = ReadCommands[3 * i - 2]
                    /\ log[j + 1] = ReadCommands[3 * i - 1]
                    /\ log[j + 2] = ReadCommands[3 * i]
                    /\ metadata[i] = log[j + 1].s
                    /\ raw[i] = log[j + 2].n
              /\ metadata[i] = Strip(DevPreamble([dev EXCEPT !.wsrc = sources[i]]))
              /\ raw[i] = DevBinaryBlock([dev EXCEPT !.wsrc = sources[i]])

C4_Witness ==
    /\ BinaryCapture /\ result = "ok"
    /\ sources = <<3, 1>>
    /\ Len(ReadCommands) = 6
    /\ raw[1] # raw[2]
    /\ metadata[1] # metadata[2]

\* C6: with a waveform format outside the three families the capture fails
\* with a ValueError before the status poll, ':DIGitize', ':WAVeform:SOURce'
\* or any read.
C6_UnknownFormatFailsFirst ==
    /\ CaptureCall /\ log # <<>> /\ log[1].c = ":WAVeform:FORMat?"
    /\ ~BinaryCapture /\ ~AsciiCapture
    => /\ result = "ValueError"
       /\ Issued({":OPERegister:CONDition?", ":DIGitize", ":WAVeform:SOURce",
                  ":WAVeform:PREamble?", ":WAVeform:DATA?"}) = <<>>

\* C9: with no capture channel get_trace does nothing: no ':DIGitize', no
\* ':WAVeform:DATA?', no decoding, no error.
C9_NoChannelsNoCapture ==
    call.op = "get_trace" /\ capture_channels = <<>> =>
        /\ result = "ok"
        /\ decodes = <<>>
        /\ Issued({":DIGitize", ":WAVeform:DATA?"}) = <<>>

\* the last call resolved the channels from the sentinel
SentinelCall ==
    \/ call.op = "__init__"
    \/ /\ call.op = "set_channels_for_capture"
       /\ (call.channels.kind \in {"None", "active"} \/ call.channels.v = <<>>)

\* C10: the sentinel queries CHAN1..CHAN4 in that order, once each, and
\* resolves to the channels that replied on, in ascending order.
C10_SentinelResolvesActive ==
    SentinelCall /\ result = "ok" =>
        /\ Len(Issued({":CHAN:DISP?"})) = 4
        /\ \A i \in 1..4 :
              /\ Issued({":CHAN:DISP?"})[i].n = <<i>>
              /\ Issued({":CHAN:DISP?"})[i].s = IF dev.disp[i] = 1 THEN <<"1">> ELSE <<"0">>
        /\ capture_channels = SelectSeq(<<1, 2, 3, 4>>, LAMBDA i : dev.disp[i] = 1)
        /\ sources = capture_channels

C10_Witness ==
    /\ call.op = "set_channels_for_capture"
    /\ call.channels = ChanList(<<>>)
    /\ result = "ok"
    /\ dev.disp = <<0, 1, 0, 1>>
    /\ capture_channels = <<2, 4>>

\* the positions in the log of the reads, other than ':SYSTem:ERRor?', on
\* which the transport raised
FailedReads ==
    {j \in 1..Len(log) : /\ ~log[j].ok
                         /\ log[j].c \in {"*IDN?", ":ACQuire:TYPE?", ":ACQuire:COUNt?",
                                          ":WAVeform:FORMat?", ":OPERegister:CONDition?",
                                          ":CHAN:DISP?", ":WAVeform:PREamble?",
                                          ":WAVeform:DATA?"}}

\* C11: after a query or a waveform-data read on which the transport raised,
\* the next command is a read of the error queue, nothing but reads of the
\* error queue follows (the failed command is not issued again), and the
\* call ends with the transport error of the failed command, also when the
\* read of the error queue raised.
C11_ReadFailureDiagnosedAndReraised ==
    \A j \in FailedReads :
        /\ result = "VisaError"
        /\ j < Len(log)
        /\ \A k \in (j + 1)..Len(log) : log[k].c = ":SYSTem:ERRor?"

\* a waveform-data read failed and the read of the error queue failed too
C11_Witness ==
    /\ \E j \in FailedReads :
          log[j].c = ":WAVeform:DATA?" /\ j < Len(log) /\ ~log[j + 1].ok
    /\ result = "VisaError"

\* C12: close(), called directly or by leaving a with-block, on a session
\* whose link is down does not raise and releases the transport.
C12_CloseSafeWhenBroken ==
    call.op \in {"close", "__exit__"} /\ dev.link = "down"
        => result = "ok" /\ phase = "closed"

\* the last call ends the session the way the claim speaks of
EndsSession == (call.op = "close" /\ call.set_running) \/ call.op = "__exit__"

\* C13 as stated: whenever close() with its default argument or leaving a
\* with-block (with or without an exception) has released the transport,
\* ':RUN' was the last command written and the instrument runs.
C13_EveryEndLeavesRunning ==
    EndsSession /\ phase = "closed"
        => /\ log # <<>> /\ log[Len(log)] = Cmd(":RUN", <<>>, <<>>)
           /\ dev.running

\* C13 amended: close() with its default argument and leaving a with-block
\* without an exception write ':RUN' as the only command before the
\* transport is released; leaving a with-block with an exception releases
\* the transport without writing anything, and the instrument stays as it
\* was, running or stopped.
C13_EndLeavesRunningUnlessException ==
    [][ /\ phase = "connected" /\ phase' = "closed" /\ EndsSession' /\ ~call'.exc
           => log' = <<Cmd(":RUN", <<>>, <<>>)>> /\ dev'.running
        /\ phase = "connected" /\ call'.op = "__exit__" /\ call'.exc
           => phase' = "closed" /\ log' = <<>> /\ dev' = dev ]_vars

\* a with-block left with an exception while the instrument is stopped
C13_Witness ==
    /\ phase = "closed" /\ call.op = "__exit__" /\ call.exc
    /\ log = <<>> /\ ~dev.running

----------------------------------------------------------------------------
(* Decoding *)

BinaryDecode == call.op = "process_data" /\ call.wav_format.v \in {tWORD, tBYTE}

AsciiDecode == call.op = "process_data" /\ call.wav_format.v = tASCii

\* the first preamble is ten numbers and names n points
NamesCount(n) ==
    \E xs \in XScales, ys \in YScales :
        metadata[1] = PreambleText(PreambleFields(IntText(n), xs, ys))

\* the first preamble is ten numbers with the time scale xs
HasTimeScale(xs) ==
    \E n \in 0..MaxSamples, ys \in YScales :
        metadata[1] = PreambleText(PreambleFields(IntText(n), xs, ys))

\* the preamble of channel c is ten numbers with the voltage scale ys
HasScale(c, ys) ==
    \E n \in 0..MaxSamples, xs \in XScales :
        metadata[c] = PreambleText(PreambleFields(IntText(n), xs, ys))

Transferred(c) ==
    IF BinaryDecode THEN Len(raw[c])
    ELSE CHOOSE n \in 0..MaxSamples :
            \E vals \in SampleBlocks({n}) : raw[c] = AsciiBlockOf(metadata[2], vals)

\* C16: when the number of samples transferred for some channel differs
\* from the sample count the time axis is built from, process_data raises,
\* in the binary and in the ASCii format and also for a single sample
C16_SampleCountMismatchRaises ==
    \A n \in 0..MaxSamples :
        ( /\ BinaryDecode \/ AsciiDecode
          /\ Len(raw) >= 1
          /\ NamesCount(n)
          /\ BinaryDecode => \A c \in 1..Len(raw) : \E ys \in YScales : HasScale(c, ys)
          /\ \E c \in 1..Len(raw) : Transferred(c) # n )
        => result # "ok"

\* a preamble the decoder consults is not the numbers it reads from it
PreambleDeviates ==
    \/ /\ BinaryDecode \/ AsciiDecode
       /\ Len(metadata) >= 1
       /\ metadata[1] \in BadPreambles
    \/ /\ BinaryDecode
       /\ \E c \in 1..Len(raw) : metadata[c] \in BadBinaryPreambles

\* C17: a preamble with fewer fields than the indices read, with a points
\* field that is not a number or not a whole number, or with a scale field
\* that is not a number makes process_data raise; nothing is coerced
C17_MalformedPreambleRaises ==
    PreambleDeviates => result \in {"ValueError", "IndexError"}

----------------------------------------------------------------------------
(* Number of points *)

\* the point count 0 is set, by the setter or as the only argument of
\* set_acquiring_options
SetsPointsToZero ==
    /\ call.num_points = Some(0)
    /\ \/ call.op = "num_points"
       \/ /\ call.op = "set_acquiring_options"
          /\ call.wav_format = None /\ call.acq_type = None
          /\ call.num_averages = NoneInt /\ call.p_mode = None

\* C19: setting the point count to 0 issues exactly one command, the write
\* ':WAVeform:POINts MAXimum': no query, no ':STOP' and no ':RUN'
C19_ZeroPointsWritesMaximumOnly ==
    SetsPointsToZero
    => /\ result = "ok"
       /\ log = <<Cmd(":WAVeform:POINts", tMAXimum, <<>>)>>

C19_Witness ==
    /\ call.op = "num_points"
    /\ call.num_points = Some(0)
    /\ dev.running
    /\ log = <<Cmd(":WAVeform:POINts", tMAXimum, <<>>)>>

----------------------------------------------------------------------------
(* File header *)

\* the lines of the returned text: what lies between its newlines
NewlineAt == {i \in 1..Len(returned) : returned[i] = "\n"}

NthNewline(k) == CHOOSE i \in NewlineAt : Cardinality({j \in NewlineAt : j <= i}) = k

HeaderLines ==
    [k \in 1..(Cardinality(NewlineAt) + 1) |->
        SubSeq(returned,
               IF k = 1 THEN 1 ELSE NthNewline(k - 1) + 1,
               IF k <= Cardinality(NewlineAt) THEN NthNewline(k) - 1 ELSE Len(returned))]

HeaderChannels == IF call.channels.kind = "None" THEN capture_channels ELSE call.channels.v

\* C20: the header is, in this order, the identity line, the line
\* '<mode>,<count>' with the averaging count when the mode is averaging and
\* 'N/A' otherwise, a timestamp line iff timestamp is true, the additional
\* line iff one is supplied, and last 'time,' followed by the channel ids
\* joined by commas in capture order: three lines plus one per optional line
C20_FileHeaderLines ==
    call.op = "generate_file_header"
    => LET ts == IF call.timestamp THEN 1 ELSE 0
           add == IF call.additional_line.some THEN 1 ELSE 0
       IN  /\ result = "ok"
           /\ Len(HeaderLines) = 3 + ts + add
           /\ HeaderLines[1] = id
           /\ HeaderLines[2] = dev.acq_type \o <<",">>
                                 \o (IF dev.acq_type = tAVER THEN IntText(dev.count)
                                     ELSE <<"N","/","A">>)
           /\ call.timestamp => HeaderLines[3] \in Clock
           /\ call.additional_line.some => HeaderLines[3 + ts] = call.additional_line.v
           /\ HeaderLines[3 + ts + add] =
                 <<"t","i","m","e",",">>
                 \o Join([i \in 1..Len(HeaderChannels) |-> IntText(HeaderChannels[i])], <<",">>)

\* averaging with count 8, capture channels 3 and 1, the default arguments:
\* four lines, 'AVER,8' the second and 'time,3,1' the last
C20_Witness ==
    /\ call.op = "generate_file_header"
    /\ call.channels = ChanNone /\ call.additional_line = None /\ call.timestamp
    /\ capture_channels = <<3, 1>>
    /\ Len(HeaderLines) = 4
    /\ HeaderLines[2] = <<"A","V","E","R",",","8">>
    /\ HeaderLines[4] = <<"t","i","m","e",",","3",",","1">>

----------------------------------------------------------------------------
(* Options *)

\* set_acquiring_options with a non-averaging acquisition type and a
\* num_averages outside 2..65536
NonAveragingOutOfRange ==
    /\ call.op = "set_acquiring_options"
    /\ call.acq_type.some
    /\ Upper(Take(call.acq_type.v, 4)) \in {tNORM, tHRES}
    /\ call.num_averages.some
    /\ ~InRange(call.num_averages.v)

\* C21: set_acquiring_options with a non-averaging acquisition type and an
\* out-of-range num_averages raises no range error
C21_NoRangeErrorUnlessAveraging ==
    NonAveragingOutOfRange => result = "ok"

\* the averaging counts the last call wrote, in order
CountsWritten ==
    [i \in 1..Len(Issued({":ACQuire:COUNt"})) |-> Issued({":ACQuire:COUNt"})[i].n[1]]

\* C22: when set_acquiring_options with 'AVER<m>', m in 2..65536, returns, the
\* acquisition type written is AVER and the count last written is m, with or
\* without a num_averages argument; with 'AVER' or 'AVERage' the count
\* written is the num_averages argument, and none is written without one
C22_TokenCountInForce ==
    (call.op = "set_acquiring_options" /\ result = "ok")
    => /\ TokenIsCount /\ InRange(TokenCount)
            => /\ Issued({":ACQuire:TYPE"}) = <<Cmd(":ACQuire:TYPE", tAVER, <<>>)>>
               /\ CountsWritten # <<>>
               /\ CountsWritten[Len(CountsWritten)] = TokenCount
       /\ call.acq_type \in {Some(tAVER), Some(tAVERage)}
            => /\ Issued({":ACQuire:TYPE"}) = <<Cmd(":ACQuire:TYPE", tAVER, <<>>)>>
               /\ CountsWritten = IF call.num_averages.some
                                  THEN <<call.num_averages.v>> ELSE <<>>

----------------------------------------------------------------------------
(* Saving *)

----------------------------------------------------------------------------
(* Properties: the fields of the most recent trace *)

\* C24: whenever a trace has been acquired, the capture channels are the
\* channels the voltages were captured from: the voltages have one column
\* per capture channel, and column i holds the voltages of capture channel
\* i in the acquisition that was read (no column at all when no channel
\* was captured).
C24_TraceFieldsAgree ==
    has_trace
    => IF capture_channels = <<>>
       THEN \A k \in 1..Len(values) : values[k] = <<>>
       ELSE \E a \in 0..dev.acq :
              values = [k \in 1..NumSamples |->
                          [i \in 1..Len(capture_channels) |->
                              HeldVolts(capture_channels[i], a)[k]]]


\* the channels displayed on the instrument
Displayed == SelectSeq(<<1, 2, 3, 4>>, LAMBDA i : dev.disp[i] = 1)

\* C25: a trace taken without a channel list, by get_trace,
\* set_options_get_trace or set_options_get_trace_save, is captured from
\* the channels active on the instrument at the time of the call.
C25_CapturedFromActive ==
    /\ call.op \in {"get_trace", "set_options_get_trace", "set_options_get_trace_save"}
    /\ call.channels = ChanNone
    /\ result = "ok"
    => /\ capture_channels = Displayed
       /\ SourcesSelected = Displayed


----------------------------------------------------------------------------
(* Properties: repeated configuration *)

\* what a configuration call decides on the instrument
Configured(d) ==
    <<d.acq_type, d.count, d.format, d.p_mode, d.points, d.acq_points, d.running>>

\* C26: a set_acquiring_options or set_channels_for_capture call repeated
\* with the same arguments right after itself leaves the acquisition type,
\* averaging count, waveform format, points mode, point count and run state
\* of the instrument and the channel selection of the session as the first
\* call left them, and ends as the first call ended.
C26_ConfigurationIdempotent ==
    [][ /\ call.op \in {"set_acquiring_options", "set_channels_for_capture"}
        /\ call' = call
        => /\ Configured(dev') = Configured(dev)
           /\ capture_channels' = capture_channels
           /\ sources' = sources
           /\ result' = result ]_vars


\* set_acquiring_options(acq_type='AVER', p_mode='RAW') has run on an
\* instrument it found stopped: averaging with the points mode forced to
\* NORMal is what it leaves, however often it is repeated
C26_Witness ==
    /\ call.op = "set_acquiring_options"
    /\ call.acq_type = [some |-> TRUE, v |-> tAVER]
    /\ call.p_mode = [some |-> TRUE, v |-> tRAW]
    /\ result = "ok"
    /\ dev.acq_type = tAVER /\ dev.p_mode = tNORM
    /\ ~dev.running


----------------------------------------------------------------------------
(* Properties: captures of a stopped instrument *)

\* set_acquiring_options called with wav_format alone
FormatChange ==
    /\ call.op = "set_acquiring_options"
    /\ call.wav_format.some
    /\ ~call.acq_type.some /\ ~call.num_averages.some
    /\ ~call.p_mode.some /\ ~call.num_points.some

\* capture_and_read(set_running=False)
CaptureKeepingStopped == call.op = "capture_and_read" /\ ~call.set_running

\* C27: on a stopped instrument a waveform format change and a
\* capture_and_read(set_running=False) write no ':DIGitize', ':RUN' or
\* ':STOP', leave the instrument stopped with the acquisition it held, and
\* the capture reads that acquisition: so does every call of a sequence of
\* them.
C27_FrozenAcquisitionRead ==
    [][ /\ phase = "connected" /\ ~dev.running
        /\ (FormatChange \/ CaptureKeepingStopped)'
        => /\ Issued({":DIGitize", ":RUN", ":STOP"})' = <<>>
           /\ ~dev'.running
           /\ dev'.acq = dev.acq
           /\ (CaptureKeepingStopped /\ result = "ok" /\ (BinaryCapture \/ AsciiCapture))'
              => raw' = HeldBlocks(BinaryCapture', dev', sources', dev.acq) ]_vars

\* a stopped instrument has been read in ASCii after the format was
\* changed: the blocks are those of the acquisition it held all along
C27_Witness ==
    /\ CaptureKeepingStopped /\ result = "ok"
    /\ AsciiCapture
    /\ ~dev.running /\ dev.acq = 0
    /\ sources = <<1, 3>>
    /\ raw = HeldBlocks(FALSE, dev, <<1, 3>>, 0)
    /\ Issued({":DIGitize", ":RUN", ":STOP"}) = <<>>


----------------------------------------------------------------------------
(* Properties: the run state a capture leaves *)

\* the data and preamble reads of the last call
Reads == Positions(":WAVeform:DATA?") \cup Positions(":WAVeform:PREamble?")

\* a successful capture has written one ':RUN', after all its reads, when
\* set_running is true (in get_trace always), and none otherwise; the
\* instrument is left running or stopped accordingly
C28_AfterCapture ==
    CaptureCall /\ result = "ok"
    => IF call.op = "get_trace" \/ call.set_running
       THEN /\ Cardinality(Positions(":RUN")) = 1
            /\ \A p \in Positions(":RUN") : \A r \in Reads : r < p
            /\ dev.running
       ELSE /\ Positions(":RUN") = {}
            /\ ~dev.running

\* C28: a successful capture_and_read writes ':RUN' if and only if
\* set_running is true, after all data and preamble reads; get_trace
\* captures with set_running true and leaves the instrument running: on a
\* stopped instrument it reads the acquisition held, on a running one it
\* digitizes a new acquisition.
C28_RunIffSetRunning ==
    [][ /\ C28_AfterCapture'
        /\ (call.op = "get_trace" /\ result = "ok")'
           => IF dev.running
              THEN Positions(":DIGitize")' # {} /\ dev'.acq = dev.acq + 1
              ELSE Positions(":DIGitize")' = {} /\ dev'.acq = dev.acq ]_vars

\* get_trace has read a stopped instrument (no ':DIGitize', the
\* acquisition it held) and left it running
C28_Witness ==
    /\ call.op = "get_trace" /\ result = "ok"
    /\ Positions(":DIGitize") = {} /\ dev.acq = 0
    /\ Cardinality(Reads) = 4
    /\ Cardinality(Positions(":RUN")) = 1
    /\ dev.running


----------------------------------------------------------------------------
(* Properties: the point count and the points mode *)

\* C29: setting the point count to a negative integer raises ValueError
\* and writes no command.
C29_NegativePointsRaise ==
    call.op = "num_points" /\ call.num_points.some /\ call.num_points.v < 0
    => /\ result = "ValueError"
       /\ log = <<>>


\* C30: on a connected instrument, whatever acq_type, num_averages, p_mode,
\* num_points and set_acquiring_options calls were made and in whatever
\* order, an acquisition type of averaging goes with the points mode NORMal.
C30_AveragingImpliesNormal ==
    phase = "connected" /\ dev.acq_type = tAVER => Take(dev.p_mode, 4) = tNORM


----------------------------------------------------------------------------
(* Properties: the block header rule of ASCii decoding *)

\* trailing whitespace and one trailing comma trimmed
TrimmedEnd(t) ==
    IF Len(RStrip(t)) > 0 /\ RStrip(t)[Len(RStrip(t))] = ","
    THEN Take(RStrip(t), Len(RStrip(t)) - 1)
    ELSE RStrip(t)

\* the text left of a block under the rule of a model series
HeaderRule(data, series) ==
    IF series = <<"2","0","0","0">> THEN Drop(data, 10)
    ELSE IF series = <<"9","0","0","0">> THEN TrimmedEnd(data)
    ELSE data

\* the comma separated samples of channel c under the rule of the metadata
RuleSamples(c) == Split(HeaderRule(raw[c], metadata[2]), <<",">>)

\* C31: in ASCii decoding the voltages of a channel are the floats of its
\* text split on commas after the rule of the model series in the metadata
\* was applied: the first 10 characters removed for '2000', trailing
\* whitespace and a trailing comma trimmed for '9000', the text unchanged
\* for any other series; text that is then not a list of floats raises.
C31_AsciiHeaderRule ==
    AsciiDecode
    => IF /\ \A c \in 1..Len(raw) : \A k \in 1..Len(RuleSamples(c)) :
                ParseFloat(RuleSamples(c)[k]).ok
          /\ \A c \in 1..Len(raw) : Len(RuleSamples(c)) = Len(RuleSamples(1))
       THEN /\ result = "ok"
            /\ values = [k \in 1..Len(RuleSamples(1)) |->
                            [c \in 1..Len(raw) |-> ParseFloat(RuleSamples(c)[k]).val]]
       ELSE result = "ValueError"

\* two channels of a 2000 series instrument: the ten characters of the
\* block header are gone and the samples are the numbers that followed
C31_Witness ==
    /\ AsciiDecode /\ result = "ok"
    /\ metadata[2] = <<"2","0","0","0">>
    /\ raw = << <<"#","8","0","0","0","0","0","0","1","3","0",",","1",",","2">>,
                <<"#","8","0","0","0","0","0","0","1","3","4",",","5",",","6">> >>
    /\ values = << <<0, 4>>, <<1, 5>>, <<2, 6>> >>


----------------------------------------------------------------------------
(* Properties: the point count command of a model series *)

\* a positive point count is set, by the setter or as the only argument of
\* set_acquiring_options
SetsPositivePoints ==
    /\ call.num_points.some /\ call.num_points.v > 0
    /\ \/ call.op = "num_points"
       \/ /\ call.op = "set_acquiring_options"
          /\ call.wav_format = None /\ call.acq_type = None
          /\ call.num_averages = NoneInt /\ call.p_mode = None

\* C32: a positive point count n is written as ':ACQuire:POINts n' and
\* nothing else on the 9000 series; on any other series ':STOP',
\* ':WAVeform:POINts n' and ':RUN' are written in that order and the
\* instrument runs afterwards, and when n > 7680 one points mode command
\* comes before them, RAW, or NORM when the acquisition type is averaging.
C32_PointCountCommandBySeries ==
    SetsPositivePoints
    => /\ result = "ok"
       /\ IF model_series = <<"9","0","0","0">>
          THEN log = <<Cmd(":ACQuire:POINts", <<>>, <<call.num_points.v>>)>>
          ELSE /\ Issued({":STOP", ":WAVeform:POINts", ":RUN", ":ACQuire:POINts"})
                    = << Cmd(":STOP", <<>>, <<>>),
                         Cmd(":WAVeform:POINts", <<>>, <<call.num_points.v>>),
                         Cmd(":RUN", <<>>, <<>>) >>
               /\ dev.running
               /\ Issued({":WAVeform:POINts:MODE"})
                    = IF call.num_points.v > 7680
                      THEN <<Cmd(":WAVeform:POINts:MODE",
                                 IF dev.acq_type = tAVER THEN tNORM ELSE tRAW, <<>>)>>
                      ELSE <<>>
               /\ \A m \in Positions(":WAVeform:POINts:MODE"), s \in Positions(":STOP") : m < s
               /\ \A i \in 1..Len(log) :
                     log[i].c \in {":STOP", ":WAVeform:POINts", ":RUN",
                                   ":WAVeform:POINts:MODE", ":ACQuire:TYPE?"}

\* 7681 points on a stopped, averaging 2000 series instrument: the points
\* mode is written as NORM, then ':STOP', the count and ':RUN'
C32_Witness ==
    /\ call.op = "num_points" /\ call.num_points.v = 7681
    /\ model_series = <<"2","0","0","0">>
    /\ dev.acq_type = tAVER
    /\ Issued({":WAVeform:POINts:MODE", ":STOP", ":WAVeform:POINts", ":RUN"})
          = << Cmd(":WAVeform:POINts:MODE", tNORM, <<>>), Cmd(":STOP", <<>>, <<>>),
               Cmd(":WAVeform:POINts", <<>>, <<7681>>), Cmd(":RUN", <<>>, <<>>) >>
    /\ dev.running /\ dev.points = 7681


----------------------------------------------------------------------------
(* Properties: a get_trace that raises *)

FailedGetTrace == call.op = "get_trace" /\ result # "ok"

\* the capture raised on one of its reads: the waveform format or the
\* condition register before the capture, a preamble or a block of data
CaptureReadFailed ==
    \E j \in 1..Len(log) :
        /\ ~log[j].ok
        /\ \/ log[j].c \in {":OPERegister:CONDition?", ":WAVeform:PREamble?", ":WAVeform:DATA?"}
           \/ log[j].c = ":WAVeform:FORMat?" /\ Positions(":OPERegister:CONDition?") = {}

\* every step of the capture is taken at most once (an ASCII capture reads
\* one preamble, also when it has no source)
CapturedOnce ==
    /\ Cardinality(Positions(":DIGitize")) <= 1
    /\ Cardinality(Positions(":OPERegister:CONDition?")) <= 1
    /\ Cardinality(Positions(":WAVeform:DATA?")) <= Len(sources)
    /\ Cardinality(Positions(":WAVeform:SOURce")) <= Len(sources)
    /\ Cardinality(Positions(":WAVeform:PREamble?")) <= IF Len(sources) = 0 THEN 1 ELSE Len(sources)

\* the acquisition settings of the instrument
DeviceSettings(d) == <<d.acq_type, d.count, d.format, d.p_mode, d.points, d.acq_points, d.disp>>

\* C33: a get_trace that raises leaves the stored time axis and values as
\* they were, takes no step of the capture twice, leaves the settings of
\* the instrument as they were, and when the capture raised on a read no
\* ':RUN' is written.
C33_FailedGetTraceKeepsTrace ==
    [][FailedGetTrace'
       => /\ time' = time /\ values' = values /\ has_trace' = has_trace
          /\ CapturedOnce'
          /\ DeviceSettings(dev') = DeviceSettings(dev)
          /\ CaptureReadFailed' => Positions(":RUN")' = {}]_vars

\* a trace is stored, and the next get_trace digitizes and raises on a read
\* of waveform data
C33_Witness ==
    /\ FailedGetTrace /\ result = "VisaError"
    /\ has_trace /\ values # <<>> /\ time # <<>>
    /\ Positions(":DIGitize") # {}
    /\ \E j \in Positions(":WAVeform:DATA?") : ~log[j].ok
    /\ ~dev.running


----------------------------------------------------------------------------
(* Properties: the read of the error queue *)

ErrorReads == Issued({":SYSTem:ERRor?"})

\* the replies of the error queue reads that name an error
ErrorReplies == SelectSeq(ErrorReads, LAMBDA e : e.ok /\ Take(e.s, 2) # <<"+","0">>)

\* C34: the error queue is read with at most 30 ':SYSTem:ERRor?' queries;
\* the read ends at the first reply that starts with '+0' and at the first
\* query on which the transport raises, and not before the 30th query
\* otherwise; errors holds the replies before that, in order; no command
\* and no second read of the queue follows, also when the transport raised
\* inside the read.
C34_ErrorQueueReadBounded ==
    Positions(":SYSTem:ERRor?") # {}
    => /\ \E first \in 1..Len(log) : Positions(":SYSTem:ERRor?") = first..Len(log)
       /\ Len(ErrorReads) <= 30
       /\ \A k \in 1..(Len(ErrorReads) - 1) :
             ErrorReads[k].ok /\ Take(ErrorReads[k].s, 2) # <<"+","0">>
       /\ Len(ErrorReads) < 30
             => \/ ~ErrorReads[Len(ErrorReads)].ok
                \/ Take(ErrorReads[Len(ErrorReads)].s, 2) = <<"+","0">>
       /\ errors = [k \in 1..Len(ErrorReplies) |-> ErrorReplies[k].s]
       /\ call.op = "get_full_error_queue"
             => result = IF ErrorReads[Len(ErrorReads)].ok THEN "ok" ELSE "VisaError in get_error"

\* 31 errors are queued: the read stores 30 of them with 30 queries and
\* leaves one in the instrument
C34_Witness ==
    /\ call.op = "get_full_error_queue" /\ result = "ok"
    /\ Len(log) = 30 /\ Len(errors) = 30
    /\ errors[1] # errors[2]
    /\ dev.errors = 1


----------------------------------------------------------------------------
(* Properties: the identity of the instrument *)

\* C35: when the '*IDN?' reply does not split into four comma-separated
\* fields, __init__ still returns without raising, having applied the
\* default acquisition options and selected the active channels.
C35_UninterpretableIdnStillConnects ==
    (call.op = "__init__" /\ ~interpret_visa_id(Reply(dev.idn \o <<"\n">>)).ok)
    => /\ result = "ok"
       /\ phase = "connected"
       /\ dev.format = tWORD /\ dev.p_mode = tRAW
       /\ capture_channels = Displayed


----------------------------------------------------------------------------
(* Properties: the reads of an ASCII capture *)

\* C36: an ASCII capture issues, for each capture channel in order,
\* ':WAVeform:SOURce <ch>' and that channel's ':WAVeform:DATA?' one after
\* the other with nothing in between, then one ':WAVeform:PREamble?', after
\* the last read of data and before any ':RUN'; the i-th stored block is
\* the one of the i-th capture channel, and the preamble is stored with the
\* model series.
C36_AsciiReadThenOnePreamble ==
    AsciiCapture /\ result = "ok" =>
        /\ Len(ReadCommands) = 2 * Len(sources) + 1
        /\ Len(raw) = Len(sources)
        /\ \A i \in 1..Len(sources) :
              /\ \E j \in 1..Len(log) - 1 :
                    /\ log[j] = Cmd(":WAVeform:SOURce", <<>>, <<sources[i]>>)
                    /\ log[j + 1].c = ":WAVeform:DATA?"
                    /\ log[j] = ReadCommands[2 * i - 1]
                    /\ log[j + 1] = ReadCommands[2 * i]
                    /\ raw[i] = log[j + 1].s
              /\ raw[i] = Strip(DevAsciiBlock([dev EXCEPT !.wsrc = sources[i]]))
        /\ Cardinality(Positions(":WAVeform:PREamble?")) = 1
        /\ \A p \in Positions(":WAVeform:PREamble?") :
              /\ \A d \in Positions(":WAVeform:DATA?") : d < p
              /\ \A r \in Positions(":RUN") : p < r
              /\ metadata = <<log[p].s, model_series>>

C36_Witness ==
    /\ AsciiCapture /\ result = "ok"
    /\ sources = <<3, 1>>
    /\ Len(ReadCommands) = 5
    /\ ReadCommands[5].c = ":WAVeform:PREamble?"
    /\ raw[1] # raw[2]
    /\ Positions(":RUN") # {}

=============================================================================
